---- MODULE Spec2Model ----
(***************************************************************************)
(* Taste-Karachi: the retrieval cascade and advice generator of            *)
(* src/src/rag.py, the guardrail pipelines of src/src/guardrails.py and    *)
(* the startup, /health and /inference handlers of src/src/api.py.         *)
(*                                                                         *)
(* Python values are represented as follows.                               *)
(*   dict of features  : a function whose DOMAIN is the set of keys given  *)
(*   None              : the string PyNone                                 *)
(*   True (in a filter): the string PyTrue                                 *)
(*   list              : a sequence                                        *)
(*   Counter value     : LLM_TOKEN_USAGE is kept in quarter tokens, so     *)
(*                       that inc(len(s) / 4) adds Len(s)                  *)
(***************************************************************************)
EXTENDS Integers, Sequences, FiniteSets, Bags, TLC

VARIABLES
    op,              \* the RAGEngine method in flight: "none", "retrieve_reviews", "generate_advice"
    pc,              \* its position
    features,        \* the features argument of the call in flight
    storeCalls,      \* the collection.query calls issued by the call in flight, in order
    llmCalls,        \* the llm.invoke calls issued by the call in flight, in order
    reviews,         \* the local `reviews` / `results` of the call in flight
    result,          \* what the call returned (or raised)
    started,         \* number of RAGEngine calls started so far
    atCall,          \* history: the metrics as they were when the call in flight started
    RAG_LATENCY,     \* number of observations of the rag_request_latency_seconds histogram
    LLM_TOKEN_USAGE  \* llm_token_usage_total per label, in quarter tokens

VARIABLES
    config,          \* the GuardrailConfig the guardrails were constructed with
    metrics,         \* the Prometheus metrics of guardrails.py, one field per metric
    gcall,           \* the last validate / moderate call: its arguments, the checks it ran, its result
    gpre,            \* history: the metrics as they were when that call started
    calls,           \* number of guardrail calls made so far
    pending,         \* the text a caller of the single checks holds
    blocked_response, \* the last get_blocked_response call: its argument and the message returned
    threads          \* per worker thread of the server that is executing a call: the call, with its locals

guardVars == <<config, metrics, gcall, gpre, calls, pending, blocked_response, threads>>

ragVars == <<op, pc, features, storeCalls, llmCalls, reviews, result, started, atCall,
             RAG_LATENCY, LLM_TOKEN_USAGE>>

VARIABLES
    model,           \* api.py's global `model`: "None" or "loaded"
    rag_engine,      \* api.py's global `rag_engine`: "None" or "RAGEngine"
    server,          \* "starting", "serving" or "startup_failed"
    inference,       \* the /inference request being handled, with the handler's locals
    http_response    \* the last HTTP response sent

apiVars == <<model, rag_engine, server, inference, http_response>>

vars == <<ragVars, guardVars, apiVars>>

-----------------------------------------------------------------------------
(* Bounds of the model *)

MaxRequests == 1
MaxDocs == 2
MaxCalls == 1
MaxChunks == 3
MaxThreads == 2

-----------------------------------------------------------------------------
(* Python values *)

PyNone == "<None>"
PyTrue == "<True>"

Truthy(v) == v # PyNone /\ v # ""

RECURSIVE Join(_, _)
Join(sep, parts) ==
    IF parts = <<>> THEN ""
    ELSE IF Len(parts) = 1 THEN parts[1]
    ELSE parts[1] \o sep \o Join(sep, Tail(parts))

RECURSIVE SeqFilter(_, _)
SeqFilter(s, keep) ==
    IF s = <<>> THEN <<>>
    ELSE (IF s[1] \in keep THEN <<s[1]>> ELSE <<>>) \o SeqFilter(Tail(s), keep)

Get(d, key, default) == IF key \in DOMAIN d THEN d[key] ELSE default

-----------------------------------------------------------------------------
(* Inputs: feature dicts, store answers, generation outcomes *)

IdentityFields == {"category", "area", "price_level"}

IdentityValue(field) ==
    CASE field = "category" -> "Cafe"
      [] field = "area" -> "Clifton"
      [] field = "price_level" -> "PRICE_LEVEL_MODERATE"

vibe_operation_fields == <<"is_open_24_7", "outdoor_seating", "live_music">>

VibeFields == {vibe_operation_fields[i] : i \in 1..Len(vibe_operation_fields)}

OtherFields == {"dine_in"}

\* Identity keys are absent, empty or set; is_open_24_7 is absent or True;
\* the other two vibe flags are False or True; dine_in is absent or True.
IdentityParts ==
    UNION { { d \in [S -> {""} \cup {IdentityValue(f) : f \in S}] :
                \A f \in S : d[f] \in {"", IdentityValue(f)} } : S \in SUBSET IdentityFields }

VibeParts ==
    { v \in UNION { [S -> BOOLEAN] : S \in { VibeFields, VibeFields \ {"is_open_24_7"} } } :
        "is_open_24_7" \in DOMAIN v => v["is_open_24_7"] }

OtherParts == { <<>>, [f \in OtherFields |-> TRUE] }

Merge(a, b) == [f \in (DOMAIN a) \cup (DOMAIN b) |-> IF f \in DOMAIN a THEN a[f] ELSE b[f]]

FeatureSets ==
    { Merge(Merge(i, v), o) : i \in IdentityParts, v \in VibeParts, o \in OtherParts }

RECURSIVE Rankings(_, _)
\* the duplicate-free sequences over D of length at most n
Rankings(D, n) ==
    IF n = 0 \/ D = {} THEN {<<>>}
    ELSE {<<>>} \cup UNION { { <<d>> \o r : r \in Rankings(D \ {d}, n - 1) } : d \in D }

Docs == {"Great chai", "Slow service"}

\* What collection.query does: it raises, or returns a result whose 'documents'
\* entry is empty, or holds one ranked list (one per query text).
StoreAnswers ==
    { [kind |-> "raise", documents |-> <<>>] }
    \cup { [kind |-> "ok", documents |-> <<>>] }
    \cup { [kind |-> "ok", documents |-> <<r>>] : r \in Rankings(Docs, MaxDocs) }

\* What llm.invoke does: it raises, or returns a message with content.
LLMOutcomes ==
    { [kind |-> "raise", content |-> "quota exceeded"],
      [kind |-> "ok", content |-> "1. Serve good chai."] }

-----------------------------------------------------------------------------
(* RAGEngine._query_with_filters *)

Cond(field, value) == [field |-> field, eq |-> value]

QueryText(category, area, price_level) ==
    LET query_parts ==
            (IF Truthy(category) THEN <<category>> ELSE <<>>)
            \o (IF Truthy(area) THEN <<"in " \o area>> ELSE <<>>)
            \o (IF Truthy(price_level) THEN <<"that is " \o price_level \o " price">> ELSE <<>>)
    IN  "Reviews for a " \o Join(" ", query_parts) \o "."

Conditions(category, area, price_level, vibe_features) ==
    (IF Truthy(category) THEN <<Cond("category", category)>> ELSE <<>>)
    \o (IF Truthy(area) THEN <<Cond("area", area)>> ELSE <<>>)
    \o (IF Truthy(price_level) THEN <<Cond("price_level", price_level)>> ELSE <<>>)
    \o [i \in 1..Len(vibe_features) |-> Cond(vibe_features[i], PyTrue)]

WhereFilter_OrOfMany(conditions) ==
    IF Len(conditions) = 1 THEN [op |-> "unwrapped", conds |-> conditions]
    ELSE IF Len(conditions) > 1 THEN [op |-> "$or", conds |-> conditions]
    ELSE [op |-> "None", conds |-> <<>>]

WhereFilter(conditions) ==
    IF Len(conditions) = 1 THEN [op |-> "unwrapped", conds |-> conditions]
    ELSE IF Len(conditions) > 1 THEN [op |-> "$and", conds |-> conditions]
    ELSE [op |-> "None", conds |-> <<>>]

\* the arguments of the collection.query call
StoreQuery(category, area, price_level, vibe_features, k) ==
    [query_texts |-> <<QueryText(category, area, price_level)>>,
     n_results   |-> k,
     where       |-> WhereFilter(Conditions(category, area, price_level, vibe_features))]

\* the try/except around collection.query: what _query_with_filters hands back
HandleStoreAnswer_NoCatch(ans) ==
    IF ans.kind = "raise" THEN [raised |-> TRUE, docs |-> <<>>]
    ELSE [raised |-> FALSE,
          docs |-> IF ans.documents # <<>> THEN ans.documents[1] ELSE <<>>]

HandleStoreAnswer(ans) ==
    IF ans.kind = "raise" THEN [raised |-> FALSE, docs |-> <<>>]
    ELSE [raised |-> FALSE,
          docs |-> IF ans.documents # <<>> THEN ans.documents[1] ELSE <<>>]

-----------------------------------------------------------------------------
(* RAGEngine.retrieve_reviews *)

K == 5

active_vibe_features(f) ==
    SeqFilter(vibe_operation_fields, {v \in VibeFields : v \in DOMAIN f /\ f[v] = TRUE})

Levels == <<"strict", "relaxed", "broad">>

LevelQuery(level, f, k) ==
    LET category    == Get(f, "category", "restaurant")
        area        == Get(f, "area", "Karachi")
        price_level == Get(f, "price_level", "moderate")
    IN  CASE level = "strict"  -> StoreQuery(category, area, price_level, active_vibe_features(f), k)
          [] level = "relaxed" -> StoreQuery(category, area, price_level, <<>>, k)
          [] level = "broad"   -> StoreQuery(category, PyNone, PyNone, <<>>, k)

NextLevel(level) ==
    CASE level = "strict" -> "relaxed"
      [] level = "relaxed" -> "broad"
      [] level = "broad" -> "fallback"

\* the `if results: return results` after each attempt: "return" hands the
\* results back, "fallback" is the final `return []`, a level name is the next attempt
CascadeNext_NoShortCircuit(level, results) ==
    IF level = "broad" THEN (IF results # <<>> THEN "return" ELSE "fallback")
    ELSE NextLevel(level)

CascadeNext_SkipRelaxed(level, results) ==
    IF results # <<>> THEN "return"
    ELSE IF level = "strict" THEN "broad" ELSE NextLevel(level)

CascadeNext(level, results) ==
    IF results # <<>> THEN "return" ELSE NextLevel(level)

-----------------------------------------------------------------------------
(* RAGEngine.generate_advice *)

NoReviewsSentence == "No relevant historical reviews found to base advice on."

\* `if not reviews: return ...` : does the call go on to the generation step
NeedsGeneration_Always(revs) == TRUE

NeedsGeneration(revs) == revs # <<>>

FeatureDesc(f) ==
    LET vibe_features ==
            (IF Get(f, "outdoor_seating", FALSE) THEN <<"outdoor seating">> ELSE <<>>)
            \o (IF Get(f, "live_music", FALSE) THEN <<"live music">> ELSE <<>>)
            \o (IF Get(f, "is_open_24_7", FALSE) THEN <<"24/7 operation">> ELSE <<>>)
        base == Get(f, "category", "restaurant") \o " in " \o Get(f, "area", "Karachi")
    IN  IF vibe_features # <<>> THEN base \o " with " \o Join(", ", vibe_features) ELSE base

Prompt(f, revs) ==
    "You are an expert Restaurant Consultant. \n"
    \o "A client is opening a new " \o FeatureDesc(f) \o ".\n"
    \o "Here are reviews from similar existing restaurants with matching features:\n"
    \o "---\n" \o Join("\n- ", revs) \o "\n---\n"
    \o "Based ONLY on these reviews, list 3 key success factors and 1 potential pitfall "
    \o "for the new owner. Be concise."

ErrorString(e) == "Error generating advice: " \o e

\* after llm.invoke: "done" leaves the method; the code has no other continuation
AfterInvoke_RetryOnce(out, attempts) ==
    IF out.kind = "raise" /\ attempts < 2 THEN "generate" ELSE "done"

AfterInvoke(out, attempts) == "done"

\* the except clause of generate_advice
OnGenerationError_Propagate(e) == [kind |-> "raise", docs |-> <<>>, text |-> e]

OnGenerationError(e) == [kind |-> "str", docs |-> <<>>, text |-> ErrorString(e)]

NoResult == [kind |-> "none", docs |-> <<>>, text |-> ""]
ListResult(docs) == [kind |-> "list", docs |-> docs, text |-> ""]
StrResult(text) == [kind |-> "str", docs |-> <<>>, text |-> text]
Raised(text) == [kind |-> "raise", docs |-> <<>>, text |-> text]

-----------------------------------------------------------------------------
(* guardrails.py: texts *)

\* A text is a sequence of chunks joined by single blanks; a chunk is a piece of
\* text of one or more words.  The regular expressions and phrase lists of
\* guardrails.py are represented by what they find in each chunk.
TextString(text) == Join(" ", text)

Filler4 == "w1 w2 w3 w4"
Filler9 == "w1 w2 w3 w4 w5 w6 w7 w8 w9"

InputChunks ==
    {"hi", "bob@mail.com", "03001234567", "JAILBREAK", "hack", "food", Filler4, Filler9}

RECURSIVE TextsOver(_, _)
TextsOver(chunks, n) ==
    IF n = 0 THEN {<<>>}
    ELSE LET shorter == TextsOver(chunks, n - 1)
         IN  shorter \cup { Append(t, c) : t \in shorter, c \in chunks }

InputTexts == TextsOver(InputChunks, MaxChunks)

\* len(chunk.split())
ChunkWordCount(chunk) ==
    CASE chunk = Filler4 -> 4
      [] chunk = Filler9 -> 9
      [] chunk = "customers mentioned" -> 2
      [] chunk = "Probably, typically, usually" -> 3
      [] chunk = "one two three four five six seven eight nine ten" -> 10
      [] chunk = "[competitor restaurant]" -> 2
      [] chunk = "Subway and McDonald's" -> 3
      [] chunk = "[competitor restaurant] and McDonald's" -> 4
      [] chunk = "Subway and [competitor restaurant]" -> 4
      [] chunk = "[competitor restaurant] and [competitor restaurant]" -> 5
      [] OTHER -> 1

RECURSIVE WordCount(_)
\* len(text.split())
WordCount(text) ==
    IF text = <<>> THEN 0 ELSE ChunkWordCount(text[1]) + WordCount(Tail(text))

-----------------------------------------------------------------------------
(* guardrails.py: GuardrailAction, GuardrailResult, GuardrailConfig, metrics *)

ALLOW == "allow"
BLOCK == "block"
MODIFY == "modify"
WARN == "warn"

\* modified_content = None
NoneText == <<PyNone>>

\* confidence is kept in hundredths; the dataclass defaults are reason = None,
\* modified_content = None, confidence = 1.0
GuardrailResult(action, rule_type, reason, modified_content, confidence) ==
    [action |-> action, rule_type |-> rule_type, reason |-> reason,
     modified_content |-> modified_content, confidence |-> confidence]

Allowed(rule_type) == GuardrailResult(ALLOW, rule_type, PyNone, NoneText, 100)
Blocked_WithContent(rule_type, reason) ==
    GuardrailResult(BLOCK, rule_type, reason, <<reason>>, 100)

Blocked(rule_type, reason) == GuardrailResult(BLOCK, rule_type, reason, NoneText, 100)

\* hallucination_threshold and toxicity_threshold are kept in hundredths
GuardrailConfig ==
    [enable_pii_detection |-> TRUE,
     enable_prompt_injection_filter |-> TRUE,
     enable_off_topic_detection |-> TRUE,
     enable_hallucination_filter |-> TRUE,
     enable_toxicity_filter |-> TRUE,
     enable_competitor_filter |-> FALSE,
     toxicity_threshold |-> 70,
     hallucination_threshold |-> 50,
     strict_mode |-> TRUE]

NoMetrics ==
    [GUARDRAIL_INPUT_BLOCKED |-> EmptyBag,
     GUARDRAIL_INPUT_PASSED |-> 0,
     GUARDRAIL_OUTPUT_BLOCKED |-> EmptyBag,
     GUARDRAIL_OUTPUT_PASSED |-> 0,
     GUARDRAIL_LATENCY |-> EmptyBag,
     HALLUCINATION_DETECTED |-> 0,
     PII_DETECTED |-> EmptyBag]

\* Counter.labels(e).inc(n) and Histogram.labels(e).observe(x), on a bag of labels
Inc(bag, e, n) == IF n > 0 THEN bag (+) [x \in {e} |-> n] ELSE bag

\* the running state of one validate / moderate call: the metrics and the checks run so far
Observe(st, check_type) ==
    [st EXCEPT !.m.GUARDRAIL_LATENCY = Inc(@, check_type, 1),
               !.ran = Append(@, check_type)]

-----------------------------------------------------------------------------
(* InputGuardrails *)

PII_PATTERNS == <<"email", "phone_pk", "phone_intl", "credit_card", "cnic", "passport">>

\* len(re.findall(PII_PATTERNS[pii_type], chunk, re.IGNORECASE))
PIIMatches(pii_type, chunk) ==
    CASE chunk = "bob@mail.com" /\ pii_type = "email" -> 1
      [] chunk = "03001234567" /\ pii_type = "phone_pk" -> 1
      [] OTHER -> 0

\* any(re.search(p, chunk.lower(), re.IGNORECASE) for p in INJECTION_PATTERNS)
InjectionIn(chunk) == chunk \in {"JAILBREAK"}

\* any(re.search(p, chunk.lower(), re.IGNORECASE) for p in OFF_TOPIC_PATTERNS)
OffTopicIn(chunk) == chunk \in {"hack"}

\* any(keyword in chunk.lower() for keyword in RESTAURANT_KEYWORDS)
RestaurantKeywordIn(chunk) ==
    chunk \in {"food", "customers mentioned", "[competitor restaurant]",
               "[competitor restaurant] and McDonald's", "Subway and [competitor restaurant]",
               "[competitor restaurant] and [competitor restaurant]"}

\* any(greeting in chunk.lower() for greeting in ["hi", ..., "ok"])
GreetingIn(chunk) == chunk \in {"hi"}

RECURSIVE PIICount(_, _)
\* len(re.findall(PII_PATTERNS[pii_type], text, re.IGNORECASE))
PIICount(pii_type, text) ==
    IF text = <<>> THEN 0 ELSE PIIMatches(pii_type, text[1]) + PIICount(pii_type, Tail(text))

RECURSIVE IncAll(_, _, _)
IncAll(bag, types, count) ==
    IF types = <<>> THEN bag
    ELSE IncAll(Inc(bag, types[1], count[types[1]]), Tail(types), count)

\* a variant that lets through whatever follows an earlier detection
check_pii_OncePerProcess(text, st) ==
    LET count == [t \in {PII_PATTERNS[i] : i \in 1..Len(PII_PATTERNS)} |-> PIICount(t, text)]
        detected_pii == SeqFilter(PII_PATTERNS, {t \in DOMAIN count : count[t] > 0})
        st1 == Observe([st EXCEPT !.m.PII_DETECTED = IncAll(@, detected_pii, count)],
                       "pii_detection")
        reason == "PII detected: " \o Join(", ", detected_pii)
    IN  IF detected_pii # <<>> /\ st.m.PII_DETECTED = EmptyBag
        THEN [result |-> Blocked("pii_detection", reason),
              st |-> [st1 EXCEPT !.m.GUARDRAIL_INPUT_BLOCKED =
                                    Inc(@, <<"pii_detection", reason>>, 1)]]
        ELSE [result |-> Allowed("pii_detection"), st |-> st1]

check_pii(text, st) ==
    LET count == [t \in {PII_PATTERNS[i] : i \in 1..Len(PII_PATTERNS)} |-> PIICount(t, text)]
        detected_pii == SeqFilter(PII_PATTERNS, {t \in DOMAIN count : count[t] > 0})
        st1 == Observe([st EXCEPT !.m.PII_DETECTED = IncAll(@, detected_pii, count)],
                       "pii_detection")
        reason == "PII detected: " \o Join(", ", detected_pii)
    IN  IF detected_pii # <<>>
        THEN [result |-> Blocked("pii_detection", reason),
              st |-> [st1 EXCEPT !.m.GUARDRAIL_INPUT_BLOCKED =
                                    Inc(@, <<"pii_detection", reason>>, 1)]]
        ELSE [result |-> Allowed("pii_detection"), st |-> st1]

check_prompt_injection(text, st) ==
    LET st1 == Observe(st, "prompt_injection")
        reason == "Potential prompt injection detected"
    IN  IF \E i \in 1..Len(text) : InjectionIn(text[i])
        THEN [result |-> Blocked("prompt_injection", reason),
              st |-> [st1 EXCEPT !.m.GUARDRAIL_INPUT_BLOCKED =
                                    Inc(@, <<"prompt_injection", reason>>, 1)]]
        ELSE [result |-> Allowed("prompt_injection"), st |-> st1]

check_off_topic_WarnAtTen(text, st) ==
    LET st1 == Observe(st, "off_topic")
        reason == "Off-topic or inappropriate content detected"
        has_restaurant_context == \E i \in 1..Len(text) : RestaurantKeywordIn(text[i])
        is_greeting == WordCount(text) <= 5 /\ \E i \in 1..Len(text) : GreetingIn(text[i])
    IN  IF \E i \in 1..Len(text) : OffTopicIn(text[i])
        THEN [result |-> Blocked("off_topic", reason),
              st |-> [st1 EXCEPT !.m.GUARDRAIL_INPUT_BLOCKED =
                                    Inc(@, <<"off_topic", reason>>, 1)]]
        ELSE IF ~has_restaurant_context /\ ~is_greeting /\ WordCount(text) >= 10
        THEN [result |-> GuardrailResult(WARN, "off_topic",
                            "Message may be off-topic for restaurant consultation",
                            NoneText, 100),
              st |-> st1]
        ELSE [result |-> Allowed("off_topic"), st |-> st1]

check_off_topic(text, st) ==
    LET st1 == Observe(st, "off_topic")
        reason == "Off-topic or inappropriate content detected"
        has_restaurant_context == \E i \in 1..Len(text) : RestaurantKeywordIn(text[i])
        is_greeting == WordCount(text) <= 5 /\ \E i \in 1..Len(text) : GreetingIn(text[i])
    IN  IF \E i \in 1..Len(text) : OffTopicIn(text[i])
        THEN [result |-> Blocked("off_topic", reason),
              st |-> [st1 EXCEPT !.m.GUARDRAIL_INPUT_BLOCKED =
                                    Inc(@, <<"off_topic", reason>>, 1)]]
        ELSE IF ~has_restaurant_context /\ ~is_greeting /\ WordCount(text) > 10
        THEN [result |-> GuardrailResult(WARN, "off_topic",
                            "Message may be off-topic for restaurant consultation",
                            NoneText, 100),
              st |-> st1]
        ELSE [result |-> Allowed("off_topic"), st |-> st1]

\* the checks of validate, in the order of its if-blocks
InputChecks_InjectionFirst == <<"prompt_injection", "pii_detection", "off_topic">>

InputChecks == <<"pii_detection", "prompt_injection", "off_topic">>

InputEnabled(check, cfg) ==
    CASE check = "pii_detection" -> cfg.enable_pii_detection
      [] check = "prompt_injection" -> cfg.enable_prompt_injection_filter
      [] check = "off_topic" -> cfg.enable_off_topic_detection

RunInputCheck(check, text, st) ==
    CASE check = "pii_detection" -> check_pii(text, st)
      [] check = "prompt_injection" -> check_prompt_injection(text, st)
      [] check = "off_topic" -> check_off_topic(text, st)

\* the `return result` conditions of validate
InputTerminal_IgnoreStrictMode(check, res, cfg) == res.action = BLOCK

InputTerminal_NoShortCircuit(check, res, cfg) ==
    res.action = BLOCK /\ check = "off_topic" /\ cfg.strict_mode

InputTerminal(check, res, cfg) ==
    res.action = BLOCK /\ (check = "off_topic" => cfg.strict_mode)

RECURSIVE ValidateFrom(_, _, _, _)
ValidateFrom(checks, text, cfg, st) ==
    IF checks = <<>>
    THEN [result |-> Allowed("all_input_checks"),
          st |-> [st EXCEPT !.m.GUARDRAIL_INPUT_PASSED = @ + 1]]
    ELSE IF ~InputEnabled(checks[1], cfg)
    THEN ValidateFrom(Tail(checks), text, cfg, st)
    ELSE LET r == RunInputCheck(checks[1], text, st)
         IN  IF InputTerminal(checks[1], r.result, cfg) THEN r
             ELSE ValidateFrom(Tail(checks), text, cfg, r.st)

\* a variant that counts every return as passed
validate_CountsEveryReturn(text, cfg, st) ==
    LET r == ValidateFrom(InputChecks, text, cfg, st)
    IN  IF r.result.action = BLOCK
        THEN [r EXCEPT !.st.m.GUARDRAIL_INPUT_PASSED = @ + 1]
        ELSE r

validate(text, cfg, st) == ValidateFrom(InputChecks, text, cfg, st)

-----------------------------------------------------------------------------
(* OutputGuardrails *)

RECURSIVE Repeat(_, _)
Repeat(str, n) == IF n = 0 THEN "" ELSE str \o Repeat(str, n - 1)

\* one word of 202 characters
LongWord == Repeat("la", 101)

TenWords == "one two three four five six seven eight nine ten"

OutputChunks ==
    {"stupid", "probably", "Probably, typically, usually", "customers mentioned",
     "KFC", "Subway and McDonald's", "chai", LongWord, TenWords}

Responses == TextsOver(OutputChunks, MaxChunks - 1)

\* retrieved_context: None, or a list of document texts
NoContext == [given |-> FALSE, docs |-> <<>>]
Context(docs) == [given |-> TRUE, docs |-> docs]

Contexts ==
    {NoContext, Context(<<>>), Context(<<"chai">>), Context(<<"Great chai", "KFC">>)}

\* any(re.search(p, chunk.lower(), re.IGNORECASE) for p in TOXICITY_PATTERNS)
ToxicIn(chunk) == chunk \in {"stupid"}

\* { phrase in HALLUCINATION_PHRASES : phrase.lower() in chunk.lower() }
HallucinationPhrasesIn(chunk) ==
    CASE chunk = "probably" -> {"probably"}
      [] chunk = "Probably, typically, usually" -> {"probably", "typically", "usually"}
      [] OTHER -> {}

\* { phrase in GROUNDED_PHRASES : phrase.lower() in chunk.lower() }
GroundedPhrasesIn(chunk) ==
    CASE chunk = "customers mentioned" -> {"customers mentioned"}
      [] OTHER -> {}

\* set(chunk.lower().split())
LowerWords(chunk) ==
    CASE chunk = "Probably, typically, usually" -> {"probably,", "typically,", "usually"}
      [] chunk = "customers mentioned" -> {"customers", "mentioned"}
      [] chunk = "KFC" -> {"kfc"}
      [] chunk = "Great chai" -> {"great", "chai"}
      [] chunk = TenWords ->
            {"one", "two", "three", "four", "five", "six", "seven", "eight", "nine", "ten"}
      [] chunk = "[competitor restaurant]" -> {"[competitor", "restaurant]"}
      [] chunk = "Subway and McDonald's" -> {"subway", "and", "mcdonald's"}
      [] chunk = "[competitor restaurant] and McDonald's" ->
            {"[competitor", "restaurant]", "and", "mcdonald's"}
      [] chunk = "Subway and [competitor restaurant]" ->
            {"subway", "and", "[competitor", "restaurant]"}
      [] chunk = "[competitor restaurant] and [competitor restaurant]" ->
            {"[competitor", "restaurant]", "and"}
      [] OTHER -> {chunk}

\* set(text.lower().split())
WordSet(text) == UNION { LowerWords(text[i]) : i \in 1..Len(text) }

COMPETITOR_NAMES ==
    <<"mcdonalds", "mcdonald's", "kfc", "pizza hut", "dominos", "domino's",
      "burger king", "subway", "hardees", "hardee's">>

\* { competitor in COMPETITOR_NAMES : competitor in chunk.lower() }
CompetitorsIn(chunk) ==
    CASE chunk = "KFC" -> {"kfc"}
      [] chunk = "Subway and McDonald's" -> {"mcdonald's", "subway"}
      [] chunk = "[competitor restaurant] and McDonald's" -> {"mcdonald's"}
      [] chunk = "Subway and [competitor restaurant]" -> {"subway"}
      [] OTHER -> {}

ReplaceCompetitors_FirstOnly(chunk, mentioned) ==
    CASE chunk = "KFC" /\ "kfc" \in mentioned -> "[competitor restaurant]"
      [] chunk = "Subway and McDonald's" /\ "mcdonald's" \in mentioned ->
            "Subway and [competitor restaurant]"
      [] OTHER -> chunk

\* the chunk after re.sub(re.escape(competitor), "[competitor restaurant]", chunk,
\* flags=re.IGNORECASE) for every competitor in `mentioned`
ReplaceCompetitors(chunk, mentioned) ==
    CASE chunk = "KFC" /\ "kfc" \in mentioned -> "[competitor restaurant]"
      [] chunk = "Subway and McDonald's" /\ {"mcdonald's", "subway"} \subseteq mentioned ->
            "[competitor restaurant] and [competitor restaurant]"
      [] chunk = "Subway and McDonald's" /\ "mcdonald's" \in mentioned /\ "subway" \notin mentioned ->
            "Subway and [competitor restaurant]"
      [] chunk = "Subway and McDonald's" /\ "subway" \in mentioned /\ "mcdonald's" \notin mentioned ->
            "[competitor restaurant] and McDonald's"
      [] OTHER -> chunk

\* f"{final_score:.2f}" of a score kept in hundredths
Fmt2(score) ==
    CASE score = 0 -> "0.00"
      [] score = 30 -> "0.30"
      [] score = 40 -> "0.40"
      [] score = 60 -> "0.60"
      [] score = 70 -> "0.70"
      [] score = 100 -> "1.00"

check_toxicity(text, st) ==
    LET st1 == Observe(st, "toxicity")
        reason == "Potentially toxic content detected"
    IN  IF \E i \in 1..Len(text) : ToxicIn(text[i])
        THEN [result |-> Blocked("toxicity_filter", reason),
              st |-> [st1 EXCEPT !.m.GUARDRAIL_OUTPUT_BLOCKED =
                                    Inc(@, <<"toxicity_filter", reason>>, 1)]]
        ELSE [result |-> Allowed("toxicity_filter"), st |-> st1]

HallucinationScore_EmptyContextCounts(response, retrieved_context) ==
    LET uncertainty_count ==
            Cardinality(UNION { HallucinationPhrasesIn(response[i]) : i \in 1..Len(response) })
        grounding_count ==
            Cardinality(UNION { GroundedPhrasesIn(response[i]) : i \in 1..Len(response) })
        response_words == WordSet(response)
        context_words == WordSet(retrieved_context.docs)
        overlap == Cardinality(response_words \cap context_words)
        words == IF Cardinality(response_words) > 1 THEN Cardinality(response_words) ELSE 1
    IN  (IF uncertainty_count > 2 THEN 30 ELSE 0)
        + (IF grounding_count = 0 /\ Len(TextString(response)) > 200 THEN 30 ELSE 0)
        + (IF retrieved_context.given /\ 10 * overlap < words THEN 40 ELSE 0)

HallucinationScore_OverlapInverted(response, retrieved_context) ==
    LET uncertainty_count ==
            Cardinality(UNION { HallucinationPhrasesIn(response[i]) : i \in 1..Len(response) })
        grounding_count ==
            Cardinality(UNION { GroundedPhrasesIn(response[i]) : i \in 1..Len(response) })
        response_words == WordSet(response)
        context_words == WordSet(retrieved_context.docs)
        overlap == Cardinality(response_words \cap context_words)
        words == IF Cardinality(response_words) > 1 THEN Cardinality(response_words) ELSE 1
    IN  (IF uncertainty_count > 2 THEN 30 ELSE 0)
        + (IF grounding_count = 0 /\ Len(TextString(response)) > 200 THEN 30 ELSE 0)
        + (IF retrieved_context.given /\ retrieved_context.docs # <<>>
              /\ 10 * overlap >= words THEN 40 ELSE 0)

\* hallucination_score, in hundredths
HallucinationScore(response, retrieved_context) ==
    LET uncertainty_count ==
            Cardinality(UNION { HallucinationPhrasesIn(response[i]) : i \in 1..Len(response) })
        grounding_count ==
            Cardinality(UNION { GroundedPhrasesIn(response[i]) : i \in 1..Len(response) })
        response_words == WordSet(response)
        context_words == WordSet(retrieved_context.docs)
        overlap == Cardinality(response_words \cap context_words)
        words == IF Cardinality(response_words) > 1 THEN Cardinality(response_words) ELSE 1
    IN  (IF uncertainty_count > 2 THEN 30 ELSE 0)
        + (IF grounding_count = 0 /\ Len(TextString(response)) > 200 THEN 30 ELSE 0)
        + (IF retrieved_context.given /\ retrieved_context.docs # <<>>
              /\ 10 * overlap < words THEN 40 ELSE 0)

check_hallucination_Strict(response, retrieved_context, cfg, st) ==
    LET final_score == HallucinationScore(response, retrieved_context)
        st1 == Observe(st, "hallucination")
    IN  IF final_score > cfg.hallucination_threshold
        THEN [result |-> GuardrailResult(WARN, "hallucination_filter",
                            "Response may not be grounded in knowledge base (score: "
                                \o Fmt2(final_score) \o ")",
                            NoneText, final_score),
              st |-> [st1 EXCEPT !.m.HALLUCINATION_DETECTED = @ + 1,
                                 !.m.GUARDRAIL_OUTPUT_BLOCKED =
                                    Inc(@, <<"hallucination_filter",
                                             "hallucination_score=" \o Fmt2(final_score)>>, 1)]]
        ELSE [result |-> GuardrailResult(ALLOW, "hallucination_filter", PyNone, NoneText,
                                         100 - final_score),
              st |-> st1]

check_hallucination(response, retrieved_context, cfg, st) ==
    LET final_score == HallucinationScore(response, retrieved_context)
        st1 == Observe(st, "hallucination")
    IN  IF final_score >= cfg.hallucination_threshold
        THEN [result |-> GuardrailResult(WARN, "hallucination_filter",
                            "Response may not be grounded in knowledge base (score: "
                                \o Fmt2(final_score) \o ")",
                            NoneText, final_score),
              st |-> [st1 EXCEPT !.m.HALLUCINATION_DETECTED = @ + 1,
                                 !.m.GUARDRAIL_OUTPUT_BLOCKED =
                                    Inc(@, <<"hallucination_filter",
                                             "hallucination_score=" \o Fmt2(final_score)>>, 1)]]
        ELSE [result |-> GuardrailResult(ALLOW, "hallucination_filter", PyNone, NoneText,
                                         100 - final_score),
              st |-> st1]

check_competitor_mentions(text, st) ==
    LET present == UNION { CompetitorsIn(text[i]) : i \in 1..Len(text) }
        mentioned_competitors == SeqFilter(COMPETITOR_NAMES, present)
        st1 == Observe(st, "competitor_filter")
        modified_text == [i \in 1..Len(text) |-> ReplaceCompetitors(text[i], present)]
    IN  IF mentioned_competitors # <<>>
        THEN [result |-> GuardrailResult(MODIFY, "competitor_filter",
                            "Competitor mentions filtered: " \o Join(", ", mentioned_competitors),
                            modified_text, 100),
              st |-> [st1 EXCEPT !.m.GUARDRAIL_OUTPUT_BLOCKED =
                                    Inc(@, <<"competitor_filter",
                                             "competitors_mentioned="
                                                 \o ToString(Len(mentioned_competitors))>>, 1)]]
        ELSE [result |-> Allowed("competitor_filter"), st |-> st1]

\* the checks of moderate, in the order of its if-blocks
OutputChecks_HallucinationFirst == <<"hallucination", "toxicity", "competitor_filter">>

OutputChecks == <<"toxicity", "hallucination", "competitor_filter">>

OutputEnabled_CompetitorAlways(check, cfg) ==
    CASE check = "toxicity" -> cfg.enable_toxicity_filter
      [] check = "hallucination" -> cfg.enable_hallucination_filter
      [] check = "competitor_filter" -> TRUE

OutputEnabled(check, cfg) ==
    CASE check = "toxicity" -> cfg.enable_toxicity_filter
      [] check = "hallucination" -> cfg.enable_hallucination_filter
      [] check = "competitor_filter" -> cfg.enable_competitor_filter

RunOutputCheck(check, response, retrieved_context, cfg, st) ==
    CASE check = "toxicity" -> check_toxicity(response, st)
      [] check = "hallucination" -> check_hallucination(response, retrieved_context, cfg, st)
      [] check = "competitor_filter" -> check_competitor_mentions(response, st)

\* the `return result` conditions of moderate
OutputTerminal_WarnReturns(check, res) ==
    CASE check = "toxicity" -> res.action = BLOCK
      [] check = "hallucination" -> res.action \in {BLOCK, WARN}
      [] check = "competitor_filter" -> res.action = MODIFY

OutputTerminal_ToxicityGoesOn(check, res) ==
    check = "competitor_filter" /\ res.action = MODIFY

OutputTerminal(check, res) ==
    CASE check = "toxicity" -> res.action = BLOCK
      [] check = "hallucination" -> res.action = BLOCK
      [] check = "competitor_filter" -> res.action = MODIFY

RECURSIVE ModerateFrom(_, _, _, _, _)
ModerateFrom(checks, response, retrieved_context, cfg, st) ==
    IF checks = <<>>
    THEN [result |-> Allowed("all_output_checks"),
          st |-> [st EXCEPT !.m.GUARDRAIL_OUTPUT_PASSED = @ + 1]]
    ELSE IF ~OutputEnabled(checks[1], cfg)
    THEN ModerateFrom(Tail(checks), response, retrieved_context, cfg, st)
    ELSE LET r == RunOutputCheck(checks[1], response, retrieved_context, cfg, st)
         IN  IF OutputTerminal(checks[1], r.result) THEN r
             ELSE ModerateFrom(Tail(checks), response, retrieved_context, cfg, r.st)

moderate(response, retrieved_context, cfg, st) ==
    ModerateFrom(OutputChecks, response, retrieved_context, cfg, st)

-----------------------------------------------------------------------------
(* TasteKarachiGuardrails *)

get_blocked_response_EchoReason(res) ==
    CASE res.rule_type = "pii_detection" -> res.reason
      [] OTHER -> "I'm sorry, but I couldn't process that request. " \o res.reason

get_blocked_response(res) ==
    CASE res.rule_type = "pii_detection" ->
            "I noticed your message contains personal information (like email, phone number, or ID). "
            \o "For your privacy and security, please remove any personal details and rephrase your question. "
            \o "I'm here to help with restaurant business advice!"
      [] res.rule_type = "prompt_injection" ->
            "I'm designed to help with restaurant business advice for Taste Karachi. "
            \o "How can I assist you with your restaurant planning today?"
      [] res.rule_type = "off_topic" ->
            "I specialize in restaurant business consultation for the Karachi market. "
            \o "I'd be happy to help with questions about menu planning, location strategy, "
            \o "customer experience, pricing, or any other restaurant-related topics. "
            \o "What would you like to know?"
      [] res.rule_type = "toxicity_filter" ->
            "I'm here to provide helpful, professional advice for your restaurant business. "
            \o "Let me know how I can assist you with Taste Karachi!"
      [] OTHER ->
            "I'm sorry, but I couldn't process that request. "
            \o "How can I help you with your restaurant business today?"

\* no get_blocked_response call yet
NoResponse == [called |-> FALSE, result |-> Allowed("none"), message |-> ""]

-----------------------------------------------------------------------------
(* The state machine of one RAGEngine *)

\* no /inference request is being handled
NoInference == [pc |-> "idle", request |-> <<>>, reviews |-> <<>>, served |-> 0]

\* no HTTP response has been sent
NoHttpResponse == [endpoint |-> "none", status_code |-> 0, body |-> [detail |-> ""]]

\* the server after a startup in which the model and the RAG engine loaded
Serving ==
    /\ model = "loaded"
    /\ rag_engine = "RAGEngine"
    /\ server = "serving"
    /\ inference = NoInference
    /\ http_response = NoHttpResponse

\* the engine's locals and metrics before any call
InitEngine ==
    /\ op = "none"
    /\ pc = "idle"
    /\ features = <<>>
    /\ storeCalls = <<>>
    /\ llmCalls = <<>>
    /\ reviews = <<>>
    /\ result = NoResult
    /\ started = 0
    /\ atCall = [RAG_LATENCY |-> 0, LLM_TOKEN_USAGE |-> [input |-> 0, output |-> 0]]
    /\ RAG_LATENCY = 0
    /\ LLM_TOKEN_USAGE = [input |-> 0, output |-> 0]

InitRag == InitEngine /\ Serving

\* a caller (the /inference endpoint) calls rag_engine.retrieve_reviews(features, k=5)
CallRetrieveReviews ==
    /\ pc = "idle"
    /\ started < MaxRequests
    /\ \E f \in FeatureSets : features' = f
    /\ op' = "retrieve_reviews"
    /\ pc' = "strict"
    /\ storeCalls' = <<>>
    /\ llmCalls' = <<>>
    /\ reviews' = <<>>
    /\ result' = NoResult
    /\ started' = started + 1
    /\ atCall' = [RAG_LATENCY |-> RAG_LATENCY, LLM_TOKEN_USAGE |-> LLM_TOKEN_USAGE]
    /\ UNCHANGED <<RAG_LATENCY, LLM_TOKEN_USAGE>>
    /\ UNCHANGED <<guardVars, apiVars>>

\* a caller calls rag_engine.generate_advice(features); its first step is retrieve_reviews
CallGenerateAdvice ==
    /\ pc = "idle"
    /\ started < MaxRequests
    /\ \E f \in FeatureSets : features' = f
    /\ op' = "generate_advice"
    /\ pc' = "strict"
    /\ storeCalls' = <<>>
    /\ llmCalls' = <<>>
    /\ reviews' = <<>>
    /\ result' = NoResult
    /\ started' = started + 1
    /\ atCall' = [RAG_LATENCY |-> RAG_LATENCY, LLM_TOKEN_USAGE |-> LLM_TOKEN_USAGE]
    /\ UNCHANGED <<RAG_LATENCY, LLM_TOKEN_USAGE>>
    /\ UNCHANGED <<guardVars, apiVars>>

\* retrieve_reviews has returned revs to the method in flight
Retrieved(revs) ==
    IF op = "retrieve_reviews"
    THEN /\ reviews' = revs
         /\ result' = ListResult(revs)
         /\ pc' = "done"
         /\ UNCHANGED <<RAG_LATENCY, LLM_TOKEN_USAGE>>
    ELSE IF NeedsGeneration(revs)
    THEN /\ reviews' = revs
         /\ pc' = "generate"
         /\ UNCHANGED <<result, RAG_LATENCY, LLM_TOKEN_USAGE>>
    ELSE /\ reviews' = revs
         /\ result' = StrResult(NoReviewsSentence)
         /\ pc' = "done"
         /\ RAG_LATENCY' = RAG_LATENCY + 1
         /\ UNCHANGED LLM_TOKEN_USAGE

\* retrieve_reviews has raised e into the method in flight
RetrieveRaised(e) ==
    IF op = "retrieve_reviews"
    THEN /\ result' = Raised(e)
         /\ pc' = "done"
         /\ UNCHANGED <<reviews, RAG_LATENCY, LLM_TOKEN_USAGE>>
    ELSE /\ result' = OnGenerationError(e)
         /\ pc' = "done"
         /\ RAG_LATENCY' = RAG_LATENCY + 1
         /\ UNCHANGED <<reviews, LLM_TOKEN_USAGE>>

\* one attempt of retrieve_reviews: _query_with_filters issues collection.query,
\* the store answers, and the cascade returns or moves to the next attempt
Attempt(level) ==
    /\ pc = level
    /\ \E ans \in StoreAnswers :
         LET q   == LevelQuery(level, features, K)
             r   == HandleStoreAnswer(ans)
             nxt == CascadeNext(level, r.docs)
         IN  /\ storeCalls' = Append(storeCalls, [level |-> level, query |-> q, answer |-> ans])
             /\ IF r.raised THEN RetrieveRaised("store error")
                ELSE IF nxt = "return" THEN Retrieved(r.docs)
                ELSE IF nxt = "fallback" THEN Retrieved(<<>>)
                ELSE /\ pc' = nxt
                     /\ UNCHANGED <<reviews, result, RAG_LATENCY, LLM_TOKEN_USAGE>>
    /\ UNCHANGED <<op, features, llmCalls, started, atCall>>
    /\ UNCHANGED <<guardVars, apiVars>>

AttemptStrict == Attempt("strict")
AttemptRelaxed == Attempt("relaxed")
AttemptBroad == Attempt("broad")

\* generate_advice builds the prompt, calls llm.invoke, logs token usage and returns
\* a variant that observes the latency before each normal return instead of in a
\* `finally`, so the except path goes unobserved
InvokeLLM_ObserveOnReturnOnly ==
    /\ pc = "generate"
    /\ op = "generate_advice"
    /\ \E out \in LLMOutcomes :
         LET prompt == Prompt(features, reviews)
         IN  /\ llmCalls' = Append(llmCalls, [prompt |-> prompt, outcome |-> out])
             /\ pc' = "done"
             /\ IF out.kind = "ok"
                THEN /\ LLM_TOKEN_USAGE' =
                            [input  |-> LLM_TOKEN_USAGE.input + Len(prompt),
                             output |-> LLM_TOKEN_USAGE.output + Len(out.content)]
                     /\ result' = StrResult(out.content)
                     /\ RAG_LATENCY' = RAG_LATENCY + 1
                ELSE /\ result' = OnGenerationError(out.content)
                     /\ UNCHANGED <<RAG_LATENCY, LLM_TOKEN_USAGE>>
    /\ UNCHANGED <<op, features, storeCalls, reviews, started, atCall>>
    /\ UNCHANGED <<guardVars, apiVars>>

InvokeLLM ==
    /\ pc = "generate"
    /\ op = "generate_advice"
    /\ \E out \in LLMOutcomes :
         LET prompt == Prompt(features, reviews)
             nxt    == AfterInvoke(out, Len(llmCalls) + 1)
         IN  /\ llmCalls' = Append(llmCalls, [prompt |-> prompt, outcome |-> out])
             /\ pc' = nxt
             /\ IF nxt # "done"
                THEN UNCHANGED <<result, RAG_LATENCY, LLM_TOKEN_USAGE>>
                ELSE IF out.kind = "ok"
                THEN /\ LLM_TOKEN_USAGE' =
                            [input  |-> LLM_TOKEN_USAGE.input + Len(prompt),
                             output |-> LLM_TOKEN_USAGE.output + Len(out.content)]
                     /\ result' = StrResult(out.content)
                     /\ RAG_LATENCY' = RAG_LATENCY + 1
                ELSE /\ result' = OnGenerationError(out.content)
                     /\ RAG_LATENCY' = RAG_LATENCY + 1
                     /\ UNCHANGED LLM_TOKEN_USAGE
    /\ UNCHANGED <<op, features, storeCalls, reviews, started, atCall>>
    /\ UNCHANGED <<guardVars, apiVars>>

\* the caller takes the result; the engine keeps nothing of the call but its metrics
Return ==
    /\ pc = "done"
    /\ op' = "none"
    /\ pc' = "idle"
    /\ features' = <<>>
    /\ storeCalls' = <<>>
    /\ llmCalls' = <<>>
    /\ reviews' = <<>>
    /\ result' = NoResult
    /\ UNCHANGED <<started, atCall, RAG_LATENCY, LLM_TOKEN_USAGE>>
    /\ UNCHANGED <<guardVars, apiVars>>

NextRag ==
    \/ CallRetrieveReviews
    \/ CallGenerateAdvice
    \/ AttemptStrict
    \/ AttemptRelaxed
    \/ AttemptBroad
    \/ InvokeLLM
    \/ Return

-----------------------------------------------------------------------------
(* Worker threads: /inference is a plain `def` endpoint, so the server runs      *)
(* requests in a thread pool.  Each thread executes one call with its own locals; *)
(* the threads share the RAGEngine, the GuardrailConfig and the Prometheus        *)
(* metrics.  A thread takes one step per external call or guardrail check.        *)

Threads == 1..MaxThreads

\* the shared metrics as one record
Counters(latency, tokens, m) == [RAG_LATENCY |-> latency, LLM_TOKEN_USAGE |-> tokens, m |-> m]

NoCounters == Counters(0, [input |-> 0, output |-> 0], NoMetrics)

\* the locals of a call before its first statement; `seen` is the shared metrics as
\* they were when the call started and `incs` what the call has added to them (history)
IdleThread ==
    [op |-> "none", pc |-> "idle", features |-> <<>>, text |-> <<>>, context |-> NoContext,
     storeCalls |-> <<>>, llmCalls |-> <<>>, reviews |-> <<>>, todo |-> <<>>, ran |-> <<>>,
     result |-> NoResult, gresult |-> Allowed("none"), seen |-> NoCounters, incs |-> NoCounters]

\* no worker thread is executing a call
NoThreads == <<>>

\* thread i takes up a call whose locals are th
Spawn(i, th) == [j \in DOMAIN threads \cup {i} |-> IF j = i THEN th ELSE threads[j]]

\* the inputs of the calls the threads make
ThreadFeatureSets ==
    { f \in FeatureSets :
        /\ DOMAIN f = IdentityFields \cup {"outdoor_seating", "live_music"}
        /\ \A k \in IdentityFields : f[k] = IdentityValue(k)
        /\ ~f["live_music"] }

ThreadStoreAnswers ==
    { a \in StoreAnswers : a.kind = "raise" \/ a.documents \in {<<>>, << <<"Great chai">> >>} }

ThreadTexts == {<<"food">>, <<"bob@mail.com">>, <<"JAILBREAK", "hack">>}

ThreadResponses == {<<"chai">>, <<"stupid">>, <<"Probably, typically, usually", LongWord>>}

ThreadContexts == {NoContext, Context(<<"chai">>)}

\* Counter.inc and Histogram.observe add to the value they read while holding the
\* metric's lock: the current value, not the one the caller saw earlier
ValueUnderLock_ReadEarly(current, seen_earlier) == seen_earlier

ValueUnderLock(current, seen_earlier) == current

\* the except clause of generate_advice and the `finally` that follows a return
ThreadRetrieved(th, revs) ==
    IF th.op = "retrieve_reviews"
    THEN [th EXCEPT !.reviews = revs, !.result = ListResult(revs), !.pc = "done"]
    ELSE IF NeedsGeneration(revs)
    THEN [th EXCEPT !.reviews = revs, !.pc = "generate"]
    ELSE [th EXCEPT !.reviews = revs, !.result = StrResult(NoReviewsSentence),
                    !.pc = "finally"]

ThreadRetrieveRaised(th, e) ==
    IF th.op = "retrieve_reviews"
    THEN [th EXCEPT !.result = Raised(e), !.pc = "done"]
    ELSE [th EXCEPT !.result = OnGenerationError(e), !.pc = "finally"]

ThreadsUnchangedRest ==
    /\ UNCHANGED <<op, pc, features, storeCalls, llmCalls, reviews, result, started, atCall>>
    /\ UNCHANGED <<config, gcall, gpre, calls, pending, blocked_response>>
    /\ UNCHANGED apiVars

\* thread i starts rag_engine.retrieve_reviews(features, k=5)
ThreadCallRetrieveReviews(i) ==
    /\ i \notin DOMAIN threads
    /\ \E f \in ThreadFeatureSets :
         threads' = Spawn(i,
                        [IdleThread EXCEPT !.op = "retrieve_reviews", !.pc = "strict",
                                           !.features = f,
                                           !.seen = Counters(RAG_LATENCY, LLM_TOKEN_USAGE, metrics)])
    /\ UNCHANGED <<RAG_LATENCY, LLM_TOKEN_USAGE, metrics>>
    /\ ThreadsUnchangedRest

\* thread i starts rag_engine.generate_advice(features)
ThreadCallGenerateAdvice(i) ==
    /\ i \notin DOMAIN threads
    /\ \E f \in ThreadFeatureSets :
         threads' = Spawn(i,
                        [IdleThread EXCEPT !.op = "generate_advice", !.pc = "strict",
                                           !.features = f,
                                           !.seen = Counters(RAG_LATENCY, LLM_TOKEN_USAGE, metrics)])
    /\ UNCHANGED <<RAG_LATENCY, LLM_TOKEN_USAGE, metrics>>
    /\ ThreadsUnchangedRest

\* thread i starts validate(text): the enabled checks are still to do
ThreadCallValidate(i) ==
    /\ i \notin DOMAIN threads
    /\ \E text \in ThreadTexts :
         threads' = Spawn(i,
                        [IdleThread EXCEPT !.op = "validate", !.pc = "checks", !.text = text,
                                           !.todo = SeqFilter(InputChecks,
                                                        {c \in {"pii_detection", "prompt_injection",
                                                                "off_topic"} : InputEnabled(c, config)}),
                                           !.seen = Counters(RAG_LATENCY, LLM_TOKEN_USAGE, metrics)])
    /\ UNCHANGED <<RAG_LATENCY, LLM_TOKEN_USAGE, metrics>>
    /\ ThreadsUnchangedRest

\* thread i starts moderate(response, retrieved_context)
ThreadCallModerate(i) ==
    /\ i \notin DOMAIN threads
    /\ \E response \in ThreadResponses, retrieved_context \in ThreadContexts :
         threads' = Spawn(i,
                        [IdleThread EXCEPT !.op = "moderate", !.pc = "checks", !.text = response,
                                           !.context = retrieved_context,
                                           !.todo = SeqFilter(OutputChecks,
                                                        {c \in {"toxicity", "hallucination",
                                                                "competitor_filter"} : OutputEnabled(c, config)}),
                                           !.seen = Counters(RAG_LATENCY, LLM_TOKEN_USAGE, metrics)])
    /\ UNCHANGED <<RAG_LATENCY, LLM_TOKEN_USAGE, metrics>>
    /\ ThreadsUnchangedRest

\* one attempt of retrieve_reviews in thread i
ThreadAttempt(i) ==
    /\ i \in DOMAIN threads
    /\ threads[i].pc \in {"strict", "relaxed", "broad"}
    /\ \E ans \in ThreadStoreAnswers :
         LET th  == threads[i]
             q   == LevelQuery(th.pc, th.features, K)
             r   == HandleStoreAnswer(ans)
             nxt == CascadeNext(th.pc, r.docs)
             th1 == [th EXCEPT !.storeCalls =
                                  Append(@, [level |-> th.pc, query |-> q, answer |-> ans])]
         IN  threads' = [threads EXCEPT ![i] =
                            IF r.raised THEN ThreadRetrieveRaised(th1, "store error")
                            ELSE IF nxt = "return" THEN ThreadRetrieved(th1, r.docs)
                            ELSE IF nxt = "fallback" THEN ThreadRetrieved(th1, <<>>)
                            ELSE [th1 EXCEPT !.pc = nxt]]
    /\ UNCHANGED <<RAG_LATENCY, LLM_TOKEN_USAGE, metrics>>
    /\ ThreadsUnchangedRest

\* llm.invoke in thread i, and the two LLM_TOKEN_USAGE increments after its return
ThreadInvokeLLM(i) ==
    /\ i \in DOMAIN threads
    /\ threads[i].pc = "generate"
    /\ \E out \in LLMOutcomes :
         LET th     == threads[i]
             prompt == Prompt(th.features, th.reviews)
             nxt    == AfterInvoke(out, Len(th.llmCalls) + 1)
             th1    == [th EXCEPT !.llmCalls = Append(@, [prompt |-> prompt, outcome |-> out])]
         IN  IF nxt # "done"
             THEN /\ threads' = [threads EXCEPT ![i] = [th1 EXCEPT !.pc = nxt]]
                  /\ UNCHANGED LLM_TOKEN_USAGE
             ELSE IF out.kind = "ok"
             THEN /\ LLM_TOKEN_USAGE' =
                        [input  |-> LLM_TOKEN_USAGE.input + Len(prompt),
                         output |-> LLM_TOKEN_USAGE.output + Len(out.content)]
                  /\ threads' = [threads EXCEPT ![i] =
                        [th1 EXCEPT !.result = StrResult(out.content), !.pc = "finally",
                                    !.incs.LLM_TOKEN_USAGE =
                                        [input  |-> @.input + Len(prompt),
                                         output |-> @.output + Len(out.content)]]]
             ELSE /\ threads' = [threads EXCEPT ![i] =
                        [th1 EXCEPT !.result = OnGenerationError(out.content), !.pc = "finally"]]
                  /\ UNCHANGED LLM_TOKEN_USAGE
    /\ UNCHANGED <<RAG_LATENCY, metrics>>
    /\ ThreadsUnchangedRest

\* the `finally` of generate_advice in thread i: RAG_LATENCY.observe
ThreadObserveLatency(i) ==
    /\ i \in DOMAIN threads
    /\ threads[i].pc = "finally"
    /\ RAG_LATENCY' = ValueUnderLock(RAG_LATENCY, threads[i].seen.RAG_LATENCY) + 1
    /\ threads' = [threads EXCEPT ![i].pc = "done", ![i].incs.RAG_LATENCY = @ + 1]
    /\ UNCHANGED <<LLM_TOKEN_USAGE, metrics>>
    /\ ThreadsUnchangedRest

\* the next enabled check of validate in thread i, or its closing ALLOW
ThreadInputCheck(i) ==
    /\ i \in DOMAIN threads
    /\ threads[i].pc = "checks"
    /\ threads[i].op = "validate"
    /\ LET th == threads[i]
       IN  IF th.todo = <<>>
           THEN /\ metrics' = [metrics EXCEPT !.GUARDRAIL_INPUT_PASSED = @ + 1]
                /\ threads' = [threads EXCEPT ![i] =
                      [th EXCEPT !.pc = "done", !.gresult = Allowed("all_input_checks"),
                                 !.incs.m.GUARDRAIL_INPUT_PASSED = @ + 1]]
           ELSE LET r    == RunInputCheck(th.todo[1], th.text, [m |-> metrics, ran |-> th.ran])
                    own  == RunInputCheck(th.todo[1], th.text, [m |-> th.incs.m, ran |-> th.ran])
                    stop == InputTerminal(th.todo[1], r.result, config)
                IN  /\ metrics' = r.st.m
                    /\ threads' = [threads EXCEPT ![i] =
                          [th EXCEPT !.pc = IF stop THEN "done" ELSE "checks",
                                     !.gresult = IF stop THEN r.result ELSE @,
                                     !.todo = Tail(@),
                                     !.ran = r.st.ran,
                                     !.incs.m = own.st.m]]
    /\ UNCHANGED <<RAG_LATENCY, LLM_TOKEN_USAGE>>
    /\ ThreadsUnchangedRest

\* the next enabled check of moderate in thread i, or its closing ALLOW
ThreadOutputCheck(i) ==
    /\ i \in DOMAIN threads
    /\ threads[i].pc = "checks"
    /\ threads[i].op = "moderate"
    /\ LET th == threads[i]
       IN  IF th.todo = <<>>
           THEN /\ metrics' = [metrics EXCEPT !.GUARDRAIL_OUTPUT_PASSED = @ + 1]
                /\ threads' = [threads EXCEPT ![i] =
                      [th EXCEPT !.pc = "done", !.gresult = Allowed("all_output_checks"),
                                 !.incs.m.GUARDRAIL_OUTPUT_PASSED = @ + 1]]
           ELSE LET r    == RunOutputCheck(th.todo[1], th.text, th.context, config,
                                           [m |-> metrics, ran |-> th.ran])
                    own  == RunOutputCheck(th.todo[1], th.text, th.context, config,
                                           [m |-> th.incs.m, ran |-> th.ran])
                    stop == OutputTerminal(th.todo[1], r.result)
                IN  /\ metrics' = r.st.m
                    /\ threads' = [threads EXCEPT ![i] =
                          [th EXCEPT !.pc = IF stop THEN "done" ELSE "checks",
                                     !.gresult = IF stop THEN r.result ELSE @,
                                     !.todo = Tail(@),
                                     !.ran = r.st.ran,
                                     !.incs.m = own.st.m]]
    /\ UNCHANGED <<RAG_LATENCY, LLM_TOKEN_USAGE>>
    /\ ThreadsUnchangedRest

NextThreads ==
    \E i \in Threads :
        \/ ThreadCallRetrieveReviews(i)
        \/ ThreadCallGenerateAdvice(i)
        \/ ThreadCallValidate(i)
        \/ ThreadCallModerate(i)
        \/ ThreadAttempt(i)
        \/ ThreadInvokeLLM(i)
        \/ ThreadObserveLatency(i)
        \/ ThreadInputCheck(i)
        \/ ThreadOutputCheck(i)

-----------------------------------------------------------------------------
(* api.py: startup, /health and /inference *)

\* the /inference requests: category, area and price_level are required strings
\* (the empty string included), the flags are booleans
InferenceRequests ==
    { [category |-> c, area |-> IdentityValue("area"),
       price_level |-> IdentityValue("price_level"),
       is_open_24_7 |-> FALSE, outdoor_seating |-> o, live_music |-> FALSE,
       dine_in |-> TRUE] : c \in {"", IdentityValue("category")}, o \in BOOLEAN }

\* the features dict the handler builds: every field of the request, under its name
RequestFeatures(request) == [k \in DOMAIN request |-> request[k]]

HTTPException(endpoint, status_code, detail) ==
    [endpoint |-> endpoint, status_code |-> status_code, body |-> [detail |-> detail]]

\* the handler's answer once generate_advice has handed back `res`
InferenceResponse(res, retrieved, f) ==
    IF res.kind = "raise"
    THEN HTTPException("/inference", 500, "Inference error: " \o res.text)
    ELSE [endpoint |-> "/inference", status_code |-> 200,
          body |-> [advice |-> res.text,
                    num_reviews_retrieved |-> Len(retrieved),
                    features_used |-> f,
                    status |-> "success"]]

\* the startup handler load_model: the rating model loads or startup fails; the RAG
\* engine is constructed, or rag_engine stays None and the service starts without it
Startup ==
    /\ server = "starting"
    /\ \E model_loads, engine_loads \in BOOLEAN :
         IF model_loads
         THEN /\ model' = "loaded"
              /\ rag_engine' = IF engine_loads THEN "RAGEngine" ELSE "None"
              /\ server' = "serving"
         ELSE /\ model' = "None"
              /\ rag_engine' = "None"
              /\ server' = "startup_failed"
    /\ UNCHANGED <<inference, http_response>>
    /\ UNCHANGED <<ragVars, guardVars>>

\* GET /health
HealthCheck ==
    /\ server = "serving"
    /\ http_response' =
          [endpoint |-> "/health", status_code |-> 200,
           body |-> [status |-> "healthy",
                     model_loaded |-> model # "None",
                     rag_engine_loaded |-> rag_engine # "None"]]
    /\ UNCHANGED <<model, rag_engine, server, inference>>
    /\ UNCHANGED <<ragVars, guardVars>>

\* POST /inference arrives: 503 when rag_engine is None, otherwise the handler builds
\* the features and calls rag_engine.retrieve_reviews(features, k=5)
\* a variant without the `if rag_engine is None` test
InferenceBegin_NoEngineTest ==
    /\ server = "serving"
    /\ inference.pc = "idle"
    /\ inference.served < MaxRequests
    /\ pc \in {"idle", "done"}
    /\ \E request \in InferenceRequests :
         /\ inference' = [pc |-> "retrieve", request |-> request, reviews |-> <<>>,
                          served |-> inference.served + 1]
         /\ features' = RequestFeatures(request)
         /\ op' = "retrieve_reviews"
         /\ pc' = "strict"
         /\ storeCalls' = <<>>
         /\ llmCalls' = <<>>
         /\ reviews' = <<>>
         /\ result' = NoResult
         /\ started' = started + 1
         /\ atCall' = [RAG_LATENCY |-> RAG_LATENCY, LLM_TOKEN_USAGE |-> LLM_TOKEN_USAGE]
         /\ UNCHANGED <<RAG_LATENCY, LLM_TOKEN_USAGE, http_response>>
    /\ UNCHANGED <<model, rag_engine, server>>
    /\ UNCHANGED guardVars

InferenceBegin ==
    /\ server = "serving"
    /\ inference.pc = "idle"
    /\ inference.served < MaxRequests
    /\ pc \in {"idle", "done"}
    /\ \E request \in InferenceRequests :
         IF rag_engine = "None"
         THEN /\ http_response' =
                    HTTPException("/inference", 503,
                        "RAG Engine not initialized. Check server logs for details.")
              /\ inference' = [inference EXCEPT !.request = request, !.reviews = <<>>,
                                                !.served = @ + 1]
              /\ UNCHANGED ragVars
         ELSE /\ inference' = [pc |-> "retrieve", request |-> request, reviews |-> <<>>,
                               served |-> inference.served + 1]
              /\ features' = RequestFeatures(request)
              /\ op' = "retrieve_reviews"
              /\ pc' = "strict"
              /\ storeCalls' = <<>>
              /\ llmCalls' = <<>>
              /\ reviews' = <<>>
              /\ result' = NoResult
              /\ started' = started + 1
              /\ atCall' = [RAG_LATENCY |-> RAG_LATENCY, LLM_TOKEN_USAGE |-> LLM_TOKEN_USAGE]
              /\ UNCHANGED <<RAG_LATENCY, LLM_TOKEN_USAGE, http_response>>
    /\ UNCHANGED <<model, rag_engine, server>>
    /\ UNCHANGED guardVars

\* retrieve_reviews has returned to the handler, which keeps the list as `reviews`
\* and calls rag_engine.generate_advice(features)
InferenceGenerate ==
    /\ inference.pc = "retrieve"
    /\ pc = "done"
    /\ IF result.kind = "raise"
       THEN /\ http_response' = InferenceResponse(result, <<>>, features)
            /\ inference' = [inference EXCEPT !.pc = "idle"]
            /\ UNCHANGED ragVars
       ELSE /\ inference' = [inference EXCEPT !.pc = "generate", !.reviews = result.docs]
            /\ op' = "generate_advice"
            /\ pc' = "strict"
            /\ storeCalls' = <<>>
            /\ llmCalls' = <<>>
            /\ reviews' = <<>>
            /\ result' = NoResult
            /\ started' = started + 1
            /\ atCall' = [RAG_LATENCY |-> RAG_LATENCY, LLM_TOKEN_USAGE |-> LLM_TOKEN_USAGE]
            /\ UNCHANGED <<features, RAG_LATENCY, LLM_TOKEN_USAGE, http_response>>
    /\ UNCHANGED <<model, rag_engine, server>>
    /\ UNCHANGED guardVars

\* generate_advice has returned to the handler, which sends the response
InferenceRespond ==
    /\ inference.pc = "generate"
    /\ pc = "done"
    /\ http_response' = InferenceResponse(result, inference.reviews, features)
    /\ inference' = [inference EXCEPT !.pc = "idle"]
    /\ UNCHANGED <<model, rag_engine, server>>
    /\ UNCHANGED <<ragVars, guardVars>>

NextApi ==
    \/ Startup
    \/ HealthCheck
    \/ InferenceBegin
    \/ AttemptStrict
    \/ AttemptRelaxed
    \/ AttemptBroad
    \/ InvokeLLM
    \/ InferenceGenerate
    \/ InferenceRespond

-----------------------------------------------------------------------------
(* The state machine of the guardrails *)

NoCall ==
    [op |-> "none", text |-> <<>>, context |-> NoContext, ran |-> <<>>,
     result |-> Allowed("none")]

InitGuard(configs) ==
    /\ config \in configs
    /\ metrics = NoMetrics
    /\ gcall = NoCall
    /\ gpre = NoMetrics
    /\ calls = 0
    /\ pending = <<>>
    /\ blocked_response = NoResponse
    /\ threads = NoThreads

\* the configurations that differ from the default in the input switches and strict_mode
InputConfigs ==
    { [GuardrailConfig EXCEPT !.enable_pii_detection = b[1],
                              !.enable_prompt_injection_filter = b[2],
                              !.enable_off_topic_detection = b[3],
                              !.strict_mode = b[4]] : b \in [1..4 -> BOOLEAN] }

HallucinationThresholds == {0, 50, 100}

\* the configurations that differ from the default in the output switches and the threshold
OutputConfigs ==
    { [GuardrailConfig EXCEPT !.enable_toxicity_filter = b[1],
                              !.enable_hallucination_filter = b[2],
                              !.enable_competitor_filter = b[3],
                              !.hallucination_threshold = h] :
        b \in [1..3 -> BOOLEAN], h \in HallucinationThresholds }

\* InputGuardrails.validate(text)
Validate ==
    /\ calls < MaxCalls
    /\ \E text \in InputTexts :
         LET r == validate(text, config, [m |-> metrics, ran |-> <<>>])
         IN  /\ metrics' = r.st.m
             /\ gcall' = [op |-> "validate", text |-> text, context |-> NoContext,
                          ran |-> r.st.ran, result |-> r.result]
    /\ gpre' = metrics
    /\ calls' = calls + 1
    /\ UNCHANGED <<config, pending, blocked_response, threads>>
    /\ UNCHANGED <<ragVars, apiVars>>

\* OutputGuardrails.moderate(response, retrieved_context)
Moderate ==
    /\ calls < MaxCalls
    /\ \E response \in Responses, retrieved_context \in Contexts :
         LET r == moderate(response, retrieved_context, config, [m |-> metrics, ran |-> <<>>])
         IN  /\ metrics' = r.st.m
             /\ gcall' = [op |-> "moderate", text |-> response, context |-> retrieved_context,
                          ran |-> r.st.ran, result |-> r.result]
    /\ gpre' = metrics
    /\ calls' = calls + 1
    /\ UNCHANGED <<config, pending, blocked_response, threads>>
    /\ UNCHANGED <<ragVars, apiVars>>

\* a direct call of one check method on the pending text: the call is recorded in
\* gcall like a pipeline call, with the one check as the checks run
DirectCall(name, r, retrieved_context) ==
    /\ metrics' = r.st.m
    /\ gcall' = [op |-> name, text |-> pending, context |-> retrieved_context,
                 ran |-> r.st.ran, result |-> r.result]
    /\ gpre' = metrics
    /\ calls' = calls + 1
    /\ UNCHANGED <<config, pending, blocked_response, threads>>
    /\ UNCHANGED <<ragVars, apiVars>>

\* InputGuardrails.check_pii(text)
CheckPii ==
    /\ calls < MaxCalls
    /\ DirectCall("check_pii", check_pii(pending, [m |-> metrics, ran |-> <<>>]), NoContext)

\* InputGuardrails.check_prompt_injection(text)
CheckPromptInjection ==
    /\ calls < MaxCalls
    /\ DirectCall("check_prompt_injection",
                  check_prompt_injection(pending, [m |-> metrics, ran |-> <<>>]), NoContext)

\* InputGuardrails.check_off_topic(text)
CheckOffTopic ==
    /\ calls < MaxCalls
    /\ DirectCall("check_off_topic",
                  check_off_topic(pending, [m |-> metrics, ran |-> <<>>]), NoContext)

\* OutputGuardrails.check_toxicity(text)
CheckToxicity ==
    /\ calls < MaxCalls
    /\ DirectCall("check_toxicity",
                  check_toxicity(pending, [m |-> metrics, ran |-> <<>>]), NoContext)

\* OutputGuardrails.check_hallucination(response, retrieved_context)
CheckHallucination ==
    /\ calls < MaxCalls
    /\ \E retrieved_context \in Contexts :
         DirectCall("check_hallucination",
                    check_hallucination(pending, retrieved_context, config,
                                        [m |-> metrics, ran |-> <<>>]),
                    retrieved_context)

\* OutputGuardrails.check_competitor_mentions(text)
CheckCompetitorMentions ==
    /\ calls < MaxCalls
    /\ DirectCall("check_competitor_mentions",
                  check_competitor_mentions(pending, [m |-> metrics, ran |-> <<>>]), NoContext)

\* the configurations that differ from the default in the hallucination threshold
CheckThresholds == HallucinationThresholds \cup {30, 60}

CheckConfigs ==
    { [GuardrailConfig EXCEPT !.hallucination_threshold = h] : h \in CheckThresholds }

\* the texts handed to the single checks
CheckTexts == InputTexts \cup Responses

InitChecks ==
    /\ InitRag
    /\ config \in CheckConfigs
    /\ metrics = NoMetrics
    /\ gcall = NoCall
    /\ gpre = NoMetrics
    /\ calls = 0
    /\ pending \in CheckTexts
    /\ blocked_response = NoResponse
    /\ threads = NoThreads

NextChecks ==
    \/ CheckPii
    \/ CheckPromptInjection
    \/ CheckOffTopic
    \/ CheckToxicity
    \/ CheckHallucination
    \/ CheckCompetitorMentions

\* TasteKarachiGuardrails.get_blocked_response(result), called with the result of the
\* validate_input / moderate_output call made last
GetBlockedResponse ==
    /\ gcall.op \in {"validate", "moderate"}
    /\ blocked_response.result # gcall.result \/ ~blocked_response.called
    /\ blocked_response' = [called |-> TRUE, result |-> gcall.result,
                            message |-> get_blocked_response(gcall.result)]
    /\ UNCHANGED <<config, metrics, gcall, gpre, calls, pending, threads>>
    /\ UNCHANGED <<ragVars, apiVars>>

\* the default configuration, and the default with the competitor filter switched on
GuardConfigs == {GuardrailConfig, [GuardrailConfig EXCEPT !.enable_competitor_filter = TRUE]}

\* the texts held by a caller that uses the pipelines and the single checks side by side
GuardTexts == TextsOver(InputChunks \cup OutputChunks, MaxChunks - 1)

InitPipelinesAndChecks ==
    /\ InitRag
    /\ config \in GuardConfigs
    /\ metrics = NoMetrics
    /\ gcall = NoCall
    /\ gpre = NoMetrics
    /\ calls = 0
    /\ pending \in GuardTexts
    /\ blocked_response = NoResponse
    /\ threads = NoThreads

InitFacade == InitRag /\ InitGuard(GuardConfigs)

Init == InitRag /\ InitGuard({GuardrailConfig})
InitInput == InitRag /\ InitGuard(InputConfigs)
InitOutput == InitRag /\ InitGuard(OutputConfigs)

NextInput == Validate
NextOutput == Moderate
NextFacade == NextInput \/ NextOutput \/ GetBlockedResponse

Next == NextRag \/ NextInput \/ NextOutput \/ NextChecks \/ GetBlockedResponse \/ NextThreads \/ NextApi

SpecRag == Init /\ [][NextRag]_vars
SpecInput == InitInput /\ [][NextInput]_vars
SpecOutput == InitOutput /\ [][NextOutput]_vars
SpecChecks == InitChecks /\ [][NextChecks]_vars
SpecFacade == InitFacade /\ [][NextFacade]_vars
ThreadConfigs == GuardConfigs \cup {[GuardrailConfig EXCEPT !.strict_mode = FALSE]}

InitThreads == InitRag /\ InitGuard(ThreadConfigs)

SpecThreads == InitThreads /\ [][NextThreads]_vars

\* the process before its startup handler has run
InitApi ==
    /\ InitEngine
    /\ InitGuard({GuardrailConfig})
    /\ model = "None"
    /\ rag_engine = "None"
    /\ server = "starting"
    /\ inference = NoInference
    /\ http_response = NoHttpResponse

SpecApi == InitApi /\ [][NextApi]_vars
SpecPipelinesAndChecks ==
    InitPipelinesAndChecks /\ [][NextInput \/ NextOutput \/ NextChecks]_vars
Spec == Init /\ [][Next]_vars

-----------------------------------------------------------------------------
(* Properties of the retrieval cascade and the advice generator *)

\* the documents a store answer carries: none when the query raised
AnswerDocs(ans) ==
    IF ans.kind = "ok" /\ ans.documents # <<>> THEN ans.documents[1] ELSE <<>>

LevelDocs(i) == AnswerDocs(storeCalls[i].answer)

\* retrieve_reviews of the call in flight has handed back its list
RetrievalOver == pc \in {"generate", "done"}

\* C1: in one retrieve_reviews call a level whose store query came back non-empty
\* is the last level queried (no relaxed or broad query after a non-empty strict
\* one, no broad query after a non-empty relaxed one) and its result is what
\* retrieve_reviews returns.
C1_ShortCircuit ==
    \A i \in 1..Len(storeCalls) :
        LevelDocs(i) # <<>> =>
            /\ Len(storeCalls) = i
            /\ RetrievalOver
            /\ reviews = LevelDocs(i)
            /\ (op = "retrieve_reviews" => result = ListResult(LevelDocs(i)))

C1_Witness ==
    /\ op = "retrieve_reviews"
    /\ pc = "done"
    /\ Len(storeCalls) = 1
    /\ storeCalls[1].level = "strict"
    /\ LevelDocs(1) = <<"Slow service", "Great chai">>
    /\ result = ListResult(<<"Slow service", "Great chai">>)

\* C2: the levels are queried in the order strict, relaxed, broad; once retrieve_reviews is over it has returned exactly the documents,
\* in the store's order, of the first level that came back non-empty, and it has
\* returned the empty list exactly when all three levels came back empty.
C2_LevelOrderAndResult ==
    /\ Len(storeCalls) <= 3
    /\ \A i \in 1..Len(storeCalls) : storeCalls[i].level = Levels[i]
    /\ RetrievalOver =>
          /\ Len(storeCalls) >= 1
          /\ \A i \in 1..(Len(storeCalls) - 1) : LevelDocs(i) = <<>>
          /\ reviews = LevelDocs(Len(storeCalls))
          /\ (op = "retrieve_reviews" => result = ListResult(reviews))
          /\ (reviews = <<>> <=>
                (Len(storeCalls) = 3 /\ \A i \in 1..3 : LevelDocs(i) = <<>>))

C2_Witness ==
    /\ op = "retrieve_reviews"
    /\ pc = "done"
    /\ Len(storeCalls) = 3
    /\ LevelDocs(1) = <<>>
    /\ LevelDocs(2) = <<>>
    /\ LevelDocs(3) = <<"Slow service", "Great chai">>
    /\ <<storeCalls[1].level, storeCalls[2].level, storeCalls[3].level>> = Levels
    /\ result = ListResult(<<"Slow service", "Great chai">>)

CondFields(q) == [i \in 1..Len(q.where.conds) |-> q.where.conds[i].field]

\* C3 (as claimed): the strict filter holds the equalities on category, area and
\* price_level followed by an equality to True for exactly the vibe flags that are
\* True in the request; the relaxed query has the strict query's text and exactly
\* the three identity equalities; the broad filter is the category equality alone.
C3_FilterShapes ==
    \A i \in 1..Len(storeCalls) :
        LET q == storeCalls[i].query
            level == storeCalls[i].level
        IN  /\ level = "strict" =>
                 /\ CondFields(q) = <<"category", "area", "price_level">>
                                      \o active_vibe_features(features)
                 /\ \A j \in 4..Len(q.where.conds) : q.where.conds[j].eq = PyTrue
            /\ level = "relaxed" =>
                 /\ CondFields(q) = <<"category", "area", "price_level">>
                 /\ q.query_texts = storeCalls[1].query.query_texts
            /\ level = "broad" => CondFields(q) = <<"category">>

\* C4: a generate_advice call whose retrieval came back empty returns the fixed
\* sentence, has made no llm.invoke call and has left llm_token_usage_total as it
\* was when the call started.
C4_NoReviewsNoGeneration ==
    (op = "generate_advice" /\ pc = "done" /\ reviews = <<>>) =>
        /\ result = StrResult("No relevant historical reviews found to base advice on.")
        /\ llmCalls = <<>>
        /\ LLM_TOKEN_USAGE = atCall.LLM_TOKEN_USAGE

C4_Witness ==
    /\ op = "generate_advice"
    /\ pc = "done"
    /\ Len(storeCalls) = 3
    /\ reviews = <<>>
    /\ result.text = NoReviewsSentence

\* C5: a generate_advice call whose retrieval came back non-empty has, when it
\* returns, called llm.invoke exactly once; if that call raised e the method
\* returns the string "Error generating advice: e" and does not raise.  No call
\* ever invokes the generation more than once.
C5_GenerationOnce ==
    /\ Len(llmCalls) <= 1
    /\ (op = "generate_advice" /\ pc = "done" /\ reviews # <<>>) =>
          /\ Len(llmCalls) = 1
          /\ llmCalls[1].outcome.kind = "raise" =>
                result = StrResult("Error generating advice: " \o llmCalls[1].outcome.content)
          /\ llmCalls[1].outcome.kind = "ok" =>
                result = StrResult(llmCalls[1].outcome.content)

C5_Witness ==
    /\ op = "generate_advice"
    /\ pc = "done"
    /\ reviews # <<>>
    /\ Len(llmCalls) = 1
    /\ llmCalls[1].outcome.kind = "raise"
    /\ result = StrResult("Error generating advice: quota exceeded")

\* C6 (as claimed): within one request no external call of a kind is issued after
\* a call of that kind has failed: a raised store query is the last store query of
\* the request and a raised llm.invoke is its last llm.invoke.
C6_NoCallAfterFailure ==
    /\ \A i \in 1..Len(storeCalls) :
          storeCalls[i].answer.kind = "raise" => Len(storeCalls) = i /\ RetrievalOver
    /\ \A i \in 1..Len(llmCalls) :
          llmCalls[i].outcome.kind = "raise" => Len(llmCalls) = i /\ pc = "done"

\* C7: a store query that raises counts as an empty result of its level, so the
\* cascade goes on as after an empty answer; retrieve_reviews always returns a
\* list and generate_advice always returns a string, whatever the store and the
\* generation do: neither ever raises.
C7_FailuresNeverPropagate ==
    /\ pc = "done" =>
          /\ op = "retrieve_reviews" => result.kind = "list"
          /\ op = "generate_advice" => result.kind = "str"
    /\ \A i \in 1..Len(storeCalls) :
          storeCalls[i].answer.kind = "raise" =>
              IF i < 3 THEN Len(storeCalls) > i \/ pc = Levels[i + 1]
              ELSE RetrievalOver /\ reviews = <<>>

C7_Witness ==
    /\ op = "generate_advice"
    /\ pc = "done"
    /\ Len(storeCalls) = 3
    /\ storeCalls[1].answer.kind = "raise"
    /\ storeCalls[2].answer.kind = "raise"
    /\ LevelDocs(3) # <<>>
    /\ Len(llmCalls) = 1
    /\ llmCalls[1].outcome.kind = "raise"
    /\ result.kind = "str"

-----------------------------------------------------------------------------
(* Properties of the guardrail pipelines *)

IsPrefix(a, b) == Len(a) <= Len(b) /\ \A i \in 1..Len(a) : a[i] = b[i]

Ran(check) == \E i \in 1..Len(gcall.ran) : gcall.ran[i] = check

RECURSIVE CountOf(_, _)
\* the total of a labelled counter over the label tuples in S
CountOf(bag, S) ==
    IF S = {} THEN 0
    ELSE LET e == CHOOSE x \in S : TRUE
         IN  CopiesIn(e, bag) + CountOf(bag, S \ {e})

\* the value of a (rule_type, reason) counter summed over the reasons of one rule_type
BlockedFor(bag, rule_type) == CountOf(bag, {e \in DOMAIN bag : e[1] = rule_type})

\* the check named c has left no trace in the metrics since the last call started
InputCheckUntouched(c) ==
    /\ CopiesIn(c, metrics.GUARDRAIL_LATENCY) = CopiesIn(c, gpre.GUARDRAIL_LATENCY)
    /\ BlockedFor(metrics.GUARDRAIL_INPUT_BLOCKED, c)
          = BlockedFor(gpre.GUARDRAIL_INPUT_BLOCKED, c)

HasPII(text) ==
    \E i \in 1..Len(text) : \E j \in 1..Len(PII_PATTERNS) : PIIMatches(PII_PATTERNS[j], text[i]) > 0

HasInjection(text) == \E i \in 1..Len(text) : InjectionIn(text[i])

HasOffTopic(text) == \E i \in 1..Len(text) : OffTopicIn(text[i])

EnabledInputChecks ==
    (IF config.enable_pii_detection THEN <<"pii_detection">> ELSE <<>>)
    \o (IF config.enable_prompt_injection_filter THEN <<"prompt_injection">> ELSE <<>>)
    \o (IF config.enable_off_topic_detection THEN <<"off_topic">> ELSE <<>>)

\* C8: validate runs enabled checks only, in the order PII, prompt injection,
\* off-topic.  A text with PII is blocked by the PII check when it is enabled;
\* otherwise a text with an injection pattern is blocked by the injection check
\* when that is enabled.  Such a block is the check's own result, the blocking check
\* is the last one run, and no later check has observed a latency or counted a
\* block, nor was the passed counter incremented.  A text with both PII and an
\* injection pattern, both checks enabled, is reported as pii_detection.
C8_InputOrderShortCircuit ==
    gcall.op = "validate" =>
        LET res == gcall.result
            piiBlocks == config.enable_pii_detection /\ HasPII(gcall.text)
            injBlocks == ~piiBlocks /\ config.enable_prompt_injection_filter
                            /\ HasInjection(gcall.text)
        IN  /\ IsPrefix(gcall.ran, EnabledInputChecks)
            /\ piiBlocks <=> res.rule_type = "pii_detection"
            /\ injBlocks <=> res.rule_type = "prompt_injection"
            /\ piiBlocks =>
                  /\ res.action = BLOCK
                  /\ res.reason \in {"PII detected: email", "PII detected: phone_pk",
                                     "PII detected: email, phone_pk"}
                  /\ res.modified_content = NoneText
                  /\ CopiesIn(<<"pii_detection", res.reason>>, metrics.GUARDRAIL_INPUT_BLOCKED)
                        = CopiesIn(<<"pii_detection", res.reason>>, gpre.GUARDRAIL_INPUT_BLOCKED) + 1
                  /\ gcall.ran = <<"pii_detection">>
                  /\ InputCheckUntouched("prompt_injection")
                  /\ InputCheckUntouched("off_topic")
                  /\ metrics.GUARDRAIL_INPUT_PASSED = gpre.GUARDRAIL_INPUT_PASSED
            /\ injBlocks =>
                  /\ res = [action |-> BLOCK, rule_type |-> "prompt_injection",
                            reason |-> "Potential prompt injection detected",
                            modified_content |-> NoneText, confidence |-> 100]
                  /\ gcall.ran[Len(gcall.ran)] = "prompt_injection"
                  /\ InputCheckUntouched("off_topic")
                  /\ metrics.GUARDRAIL_INPUT_PASSED = gpre.GUARDRAIL_INPUT_PASSED
            /\ (~piiBlocks /\ ~injBlocks) => gcall.ran = EnabledInputChecks

C8_Witness ==
    /\ gcall.op = "validate"
    /\ gcall.text = <<"JAILBREAK", "bob@mail.com", "hack">>
    /\ config.enable_pii_detection
    /\ config.enable_prompt_injection_filter
    /\ config.enable_off_topic_detection
    /\ gcall.result.rule_type = "pii_detection"
    /\ gcall.ran = <<"pii_detection">>

\* C9: validate returns an off-topic BLOCK only under strict_mode; without
\* strict_mode a text the off-topic check blocks gets the synthesized ALLOW with
\* rule_type all_input_checks.  validate never returns WARN or MODIFY: its result
\* is a BLOCK of one of the three checks or that synthesized ALLOW.
C9_OffTopicStrictMode ==
    gcall.op = "validate" =>
        LET res == gcall.result
            synthesized == [action |-> ALLOW, rule_type |-> "all_input_checks",
                            reason |-> PyNone, modified_content |-> NoneText,
                            confidence |-> 100]
        IN  /\ res.action \in {ALLOW, BLOCK}
            /\ res.action = ALLOW => res = synthesized
            /\ res.action = BLOCK =>
                  res.rule_type \in {"pii_detection", "prompt_injection", "off_topic"}
            /\ res.rule_type = "off_topic" => config.strict_mode
            /\ (Ran("off_topic") /\ HasOffTopic(gcall.text)) =>
                  IF config.strict_mode
                  THEN res = [action |-> BLOCK, rule_type |-> "off_topic",
                              reason |-> "Off-topic or inappropriate content detected",
                              modified_content |-> NoneText, confidence |-> 100]
                  ELSE res = synthesized

C9_Witness ==
    /\ gcall.op = "validate"
    /\ ~config.strict_mode
    /\ Ran("off_topic")
    /\ HasOffTopic(gcall.text)
    /\ gcall.result.action = ALLOW
    /\ gcall.result.rule_type = "all_input_checks"

HasToxic(text) == \E i \in 1..Len(text) : ToxicIn(text[i])

EnabledOutputChecks ==
    (IF config.enable_toxicity_filter THEN <<"toxicity">> ELSE <<>>)
    \o (IF config.enable_hallucination_filter THEN <<"hallucination">> ELSE <<>>)
    \o (IF config.enable_competitor_filter THEN <<"competitor_filter">> ELSE <<>>)

\* C10: moderate runs enabled checks only, in the order toxicity, hallucination,
\* competitor filter.  A toxic response under an enabled toxicity check gets that
\* check's BLOCK at once: the toxicity check is the only check run, and the
\* hallucination and competitor checks have left no trace in the metrics.  Any
\* other call runs every enabled check.
C10_OutputOrderToxicityShortCircuit ==
    gcall.op = "moderate" =>
        LET res == gcall.result
            toxBlocks == config.enable_toxicity_filter /\ HasToxic(gcall.text)
        IN  /\ IsPrefix(gcall.ran, EnabledOutputChecks)
            /\ toxBlocks <=> res.rule_type = "toxicity_filter"
            /\ toxBlocks =>
                  /\ res = [action |-> BLOCK, rule_type |-> "toxicity_filter",
                            reason |-> "Potentially toxic content detected",
                            modified_content |-> NoneText, confidence |-> 100]
                  /\ gcall.ran = <<"toxicity">>
                  /\ \A c \in {"hallucination", "competitor_filter"} :
                        CopiesIn(c, metrics.GUARDRAIL_LATENCY) = CopiesIn(c, gpre.GUARDRAIL_LATENCY)
                  /\ \A c \in {"hallucination_filter", "competitor_filter"} :
                        BlockedFor(metrics.GUARDRAIL_OUTPUT_BLOCKED, c)
                           = BlockedFor(gpre.GUARDRAIL_OUTPUT_BLOCKED, c)
                  /\ metrics.HALLUCINATION_DETECTED = gpre.HALLUCINATION_DETECTED
                  /\ metrics.GUARDRAIL_OUTPUT_PASSED = gpre.GUARDRAIL_OUTPUT_PASSED
            /\ ~toxBlocks => gcall.ran = EnabledOutputChecks

C10_Witness ==
    /\ gcall.op = "moderate"
    /\ gcall.text = <<"KFC", "stupid">>
    /\ config.enable_toxicity_filter
    /\ config.enable_hallucination_filter
    /\ config.enable_competitor_filter
    /\ config.hallucination_threshold = 0
    /\ gcall.result.rule_type = "toxicity_filter"
    /\ gcall.ran = <<"toxicity">>

\* the hallucination check of the last moderate call returned WARN
HallucinationWarned ==
    /\ gcall.op = "moderate"
    /\ Ran("hallucination")
    /\ metrics.HALLUCINATION_DETECTED = gpre.HALLUCINATION_DETECTED + 1

HasCompetitor(text) == \E i \in 1..Len(text) : CompetitorsIn(text[i]) # {}

\* C11: moderate never returns WARN.  When its hallucination check has warned,
\* the competitor check still runs if it is enabled, and the result is the
\* competitor MODIFY or else ALLOW with rule_type all_output_checks: the very
\* result the call returns under a threshold no score reaches.
C11_HallucinationNeverShortCircuits ==
    gcall.op = "moderate" =>
        /\ gcall.result.action # WARN
        /\ gcall.result.rule_type # "hallucination_filter"
        /\ HallucinationWarned =>
              /\ config.enable_competitor_filter => Ran("competitor_filter")
              /\ gcall.ran[Len(gcall.ran)] # "hallucination" => Ran("competitor_filter")
              /\ (~config.enable_competitor_filter \/ ~HasCompetitor(gcall.text)) =>
                    gcall.result = [action |-> ALLOW, rule_type |-> "all_output_checks",
                                    reason |-> PyNone, modified_content |-> NoneText,
                                    confidence |-> 100]
              /\ (config.enable_competitor_filter /\ HasCompetitor(gcall.text)) =>
                    /\ gcall.result.action = MODIFY
                    /\ gcall.result.rule_type = "competitor_filter"
              /\ gcall.result =
                    moderate(gcall.text, gcall.context,
                             [config EXCEPT !.hallucination_threshold = 101],
                             [m |-> gpre, ran |-> <<>>]).result

C11_Witness ==
    /\ HallucinationWarned
    /\ config.hallucination_threshold = 50
    /\ config.enable_competitor_filter
    /\ gcall.ran = <<"toxicity", "hallucination", "competitor_filter">>
    /\ gcall.result.action = ALLOW
    /\ gcall.result.rule_type = "all_output_checks"

\* C12: the competitor filter is off by default.  With it off, moderate never
\* returns MODIFY, does not run the competitor check and leaves the
\* competitor_filter latency and blocked series as they were.  With it on, a
\* response that toxicity did not block and that mentions a listed competitor
\* gets the competitor check's MODIFY, the check is the last one run and the
\* output-passed counter is not incremented.
C12_CompetitorGating ==
    /\ ~GuardrailConfig.enable_competitor_filter
    /\ gcall.op = "moderate" =>
          /\ ~config.enable_competitor_filter =>
                /\ gcall.result.action # MODIFY
                /\ ~Ran("competitor_filter")
                /\ CopiesIn("competitor_filter", metrics.GUARDRAIL_LATENCY)
                      = CopiesIn("competitor_filter", gpre.GUARDRAIL_LATENCY)
                /\ BlockedFor(metrics.GUARDRAIL_OUTPUT_BLOCKED, "competitor_filter")
                      = BlockedFor(gpre.GUARDRAIL_OUTPUT_BLOCKED, "competitor_filter")
          /\ (config.enable_competitor_filter /\ HasCompetitor(gcall.text)
                /\ gcall.result.rule_type # "toxicity_filter") =>
                /\ gcall.result.action = MODIFY
                /\ gcall.result.rule_type = "competitor_filter"
                /\ gcall.ran[Len(gcall.ran)] = "competitor_filter"
                /\ metrics.GUARDRAIL_OUTPUT_PASSED = gpre.GUARDRAIL_OUTPUT_PASSED
          /\ gcall.result.action = MODIFY =>
                config.enable_competitor_filter /\ HasCompetitor(gcall.text)

C12_Witness ==
    /\ gcall.op = "moderate"
    /\ config.enable_competitor_filter
    /\ config.enable_toxicity_filter
    /\ gcall.text = <<"KFC", "chai">>
    /\ gcall.result.action = MODIFY
    /\ gcall.result.modified_content = <<"[competitor restaurant]", "chai">>
    /\ metrics.GUARDRAIL_OUTPUT_PASSED = gpre.GUARDRAIL_OUTPUT_PASSED

-----------------------------------------------------------------------------
(* Properties of the single checks *)

\* the listed competitor names that occur, in any letter case, in a text
CompetitorNamesIn(text) == UNION { CompetitorsIn(text[i]) : i \in 1..Len(text) }

\* C13: check_competitor_mentions, for a text with a listed competitor name in
\* any letter case, returns MODIFY; the modified content is the text with every
\* occurrence replaced by "[competitor restaurant]", it holds no listed name any
\* more, and the reason lists the names found.  For a text without any listed
\* name it returns ALLOW with no modified content.  The check applied to the
\* modified content returns ALLOW.
C13_CompetitorReplacement ==
    gcall.op = "check_competitor_mentions" =>
        LET res == gcall.result
            names == CompetitorNamesIn(gcall.text)
            mc == res.modified_content
        IN  IF names = {}
            THEN res = [action |-> ALLOW, rule_type |-> "competitor_filter",
                        reason |-> PyNone, modified_content |-> NoneText, confidence |-> 100]
            ELSE /\ res.action = MODIFY
                 /\ res.rule_type = "competitor_filter"
                 /\ res.reason = "Competitor mentions filtered: "
                                    \o Join(", ", SeqFilter(COMPETITOR_NAMES, names))
                 /\ Len(mc) = Len(gcall.text)
                 /\ \A i \in 1..Len(mc) :
                       mc[i] = CASE gcall.text[i] = "KFC" -> "[competitor restaurant]"
                                 [] gcall.text[i] = "Subway and McDonald's" ->
                                       "[competitor restaurant] and [competitor restaurant]"
                                 [] OTHER -> gcall.text[i]
                 /\ CompetitorNamesIn(mc) = {}
                 /\ check_competitor_mentions(mc, [m |-> metrics, ran |-> <<>>]).result
                       = [action |-> ALLOW, rule_type |-> "competitor_filter",
                          reason |-> PyNone, modified_content |-> NoneText,
                          confidence |-> 100]

C13_Witness ==
    /\ gcall.op = "check_competitor_mentions"
    /\ gcall.text = <<"Subway and McDonald's", "KFC">>
    /\ gcall.result.action = MODIFY
    /\ gcall.result.reason = "Competitor mentions filtered: mcdonald's, kfc, subway"
    /\ gcall.result.modified_content =
          <<"[competitor restaurant] and [competitor restaurant]", "[competitor restaurant]">>

\* C14: every result a check, validate or moderate has returned carries a
\* modified_content other than None exactly when its action is MODIFY.
C14_ModifiedContentIffModify ==
    gcall.op # "none" =>
        (gcall.result.modified_content # <<"<None>">> <=> gcall.result.action = "modify")

C14_Witness ==
    /\ gcall.op = "moderate"
    /\ gcall.result.action = "modify"
    /\ gcall.result.modified_content = <<"chai", "[competitor restaurant]">>

\* C15: check_hallucination returns WARN exactly when the score reaches the
\* configured threshold, and ALLOW otherwise, never BLOCK or MODIFY; the
\* confidence is the score on WARN and one minus the score on ALLOW, and in both
\* cases lies between 0 and 1 (confidences and thresholds are in hundredths).
C15_HallucinationDecisionRule ==
    gcall.op = "check_hallucination" =>
        LET res == gcall.result
            score == HallucinationScore(gcall.text, gcall.context)
        IN  /\ res.action \in {"warn", "allow"}
            /\ res.action = "warn" <=> score >= config.hallucination_threshold
            /\ res.action = "warn" => res.confidence = score
            /\ res.action = "allow" => res.confidence = 100 - score
            /\ res.confidence >= 0
            /\ res.confidence <= 100
            /\ res.rule_type = "hallucination_filter"

C15_Witness ==
    /\ gcall.op = "check_hallucination"
    /\ config.hallucination_threshold = 30
    /\ HallucinationScore(gcall.text, gcall.context) = 30
    /\ gcall.result.action = "warn"
    /\ gcall.result.confidence = 30

\* retrieved_context is a non-empty list
Supplied(retrieved_context) == retrieved_context.given /\ retrieved_context.docs # <<>>

\* more than two uncertainty phrases occur in the response
UncertaintySignal(response) ==
    Cardinality(UNION { HallucinationPhrasesIn(response[i]) : i \in 1..Len(response) }) > 2

\* no grounding phrase occurs in a response of more than 200 characters
GroundingSignal(response) ==
    /\ UNION { GroundedPhrasesIn(response[i]) : i \in 1..Len(response) } = {}
    /\ Len(TextString(response)) > 200

\* numerator and denominator of the word-overlap ratio
OverlapWords(response, retrieved_context) ==
    Cardinality(WordSet(response) \cap WordSet(retrieved_context.docs))

ResponseWords(response) ==
    IF Cardinality(WordSet(response)) > 1 THEN Cardinality(WordSet(response)) ELSE 1

\* the overlap ratio of r1 with c1 is at most that of r2 with c2
RatioAtMost(r1, c1, r2, c2) ==
    OverlapWords(r1, c1) * ResponseWords(r2) <= OverlapWords(r2, c2) * ResponseWords(r1)

\* the score a check_hallucination result reports
ScoreOf(res) == IF res.action = "warn" THEN res.confidence ELSE 100 - res.confidence

\* the responses and contexts a checked response is compared with
PairResponses == TextsOver(OutputChunks, 1)
SuppliedContexts == {c \in Contexts : Supplied(c)}

\* C16: of two check_hallucination calls with supplied contexts whose responses
\* agree on the uncertainty signal and on the grounding signal, the one with
\* the lower word-overlap ratio never gets the lower score.
C16_MonotonicInOverlap ==
    (gcall.op = "check_hallucination" /\ Supplied(gcall.context)) =>
        \A r2 \in PairResponses, c2 \in SuppliedContexts :
            LET res2 == check_hallucination(r2, c2, config, [m |-> metrics, ran |-> <<>>]).result
                agree == /\ UncertaintySignal(r2) = UncertaintySignal(gcall.text)
                         /\ GroundingSignal(r2) = GroundingSignal(gcall.text)
            IN  /\ (agree /\ RatioAtMost(r2, c2, gcall.text, gcall.context)) =>
                      ScoreOf(res2) >= ScoreOf(gcall.result)
                /\ (agree /\ RatioAtMost(gcall.text, gcall.context, r2, c2)) =>
                      ScoreOf(gcall.result) >= ScoreOf(res2)

C16_Witness ==
    /\ gcall.op = "check_hallucination"
    /\ gcall.text = <<"chai", "KFC">>
    /\ gcall.context = Context(<<"chai">>)
    /\ ScoreOf(gcall.result) = 0
    /\ \E r2 \in PairResponses, c2 \in SuppliedContexts :
          /\ UncertaintySignal(r2) = UncertaintySignal(gcall.text)
          /\ GroundingSignal(r2) = GroundingSignal(gcall.text)
          /\ ~RatioAtMost(gcall.text, gcall.context, r2, c2)
          /\ ScoreOf(check_hallucination(r2, c2, config, [m |-> metrics, ran |-> <<>>]).result) = 40

\* C17: check_off_topic returns BLOCK when an explicit off-topic pattern occurs
\* in the text.  Otherwise it returns WARN exactly when the text has more than
\* 10 words, no domain keyword, and does not meet the greeting condition (at
\* most 5 words and a greeting token), and ALLOW in every other case.  So a
\* greeting of 3 words is allowed, and a text of 11 words without domain keyword
\* and greeting is warned about, not blocked.
C17_OffTopicDecision ==
    gcall.op = "check_off_topic" =>
        LET res == gcall.result
            text == gcall.text
            pattern == HasOffTopic(text)
            keyword == \E i \in 1..Len(text) : RestaurantKeywordIn(text[i])
            token == \E i \in 1..Len(text) : GreetingIn(text[i])
            greeting == WordCount(text) <= 5 /\ token
        IN  /\ res.rule_type = "off_topic"
            /\ pattern => res.action = "block"
            /\ ~pattern => res.action \in {"warn", "allow"}
            /\ ~pattern => (res.action = "warn" <=>
                               (WordCount(text) > 10 /\ ~keyword /\ ~greeting))
            /\ (~pattern /\ WordCount(text) = 3 /\ token) => res.action = "allow"
            /\ (~pattern /\ WordCount(text) = 11 /\ ~keyword) => res.action = "warn"

C17_Witness ==
    /\ gcall.op = "check_off_topic"
    /\ gcall.text = <<"w1 w2 w3 w4 w5 w6 w7 w8 w9", "bob@mail.com", "hi">>
    /\ WordCount(gcall.text) = 11
    /\ gcall.result.action = "warn"
    /\ gcall.result.reason = "Message may be off-topic for restaurant consultation"

-----------------------------------------------------------------------------
(* Properties of the facade *)

\* results that agree with res in the rule_type and differ in the other fields
SameRuleType(res) ==
    { [action |-> a, rule_type |-> res.rule_type, reason |-> x,
       modified_content |-> mc, confidence |-> c] :
         a \in {"allow", "block", "modify", "warn"},
         x \in {"<None>", "PII detected: email", TextString(gcall.text)},
         mc \in {<<"<None>">>, gcall.text},
         c \in {0, 100} }

RuleTypes ==
    {"pii_detection", "prompt_injection", "off_topic", "toxicity_filter",
     "hallucination_filter", "competitor_filter", "all_input_checks", "all_output_checks"}

\* C18: the message of get_blocked_response is determined by the rule_type of
\* its argument alone: every result of the same rule_type, whatever its action,
\* reason, modified content and confidence, gets the same message.  There are
\* five messages, one each for pii_detection, prompt_injection, off_topic and
\* toxicity_filter and one for all other rule types; the message is neither the
\* reason nor the text of the call.
C18_BlockedResponseByRuleType ==
    blocked_response.called =>
        LET res == blocked_response.result
            msg == blocked_response.message
            fallback == "I'm sorry, but I couldn't process that request. "
                        \o "How can I help you with your restaurant business today?"
            special == {"pii_detection", "prompt_injection", "off_topic", "toxicity_filter"}
        IN  /\ \A r2 \in SameRuleType(res) : get_blocked_response(r2) = msg
            /\ msg \in { get_blocked_response([res EXCEPT !.rule_type = rt]) : rt \in RuleTypes }
            /\ Cardinality({ get_blocked_response([res EXCEPT !.rule_type = rt]) :
                               rt \in RuleTypes }) = 5
            /\ res.rule_type \notin special <=> msg = fallback
            /\ msg # res.reason
            /\ msg # TextString(gcall.text)

C18_Witness ==
    /\ blocked_response.called
    /\ gcall.op = "validate"
    /\ gcall.text = <<"hi", "bob@mail.com", "03001234567">>
    /\ blocked_response.result = gcall.result
    /\ blocked_response.result.reason = "PII detected: email, phone_pk"
    /\ blocked_response.message =
          get_blocked_response([action |-> "block", rule_type |-> "pii_detection",
                                reason |-> "PII detected: email",
                                modified_content |-> <<"<None>">>, confidence |-> 100])
    /\ Len(blocked_response.message) = 231

-----------------------------------------------------------------------------
(* Properties of calls made after and among other calls *)

\* the fields of a GuardrailResult that make the decision
Decision(res) ==
    <<res.action, res.rule_type, res.reason, res.modified_content>>

\* a call that starts with no call before it and all counters at zero
Afresh == [m |-> NoMetrics, ran |-> <<>>]

\* the attempts of retrieve_reviews follow from the features and the store's answers:
\* the first is the strict one, each later one is what the cascade gives for the
\* answer before it, and each query is the one its level builds from the features
QueriesFollowFrom(f, attempts) ==
    \A j \in 1..Len(attempts) :
        /\ attempts[j].query = LevelQuery(attempts[j].level, f, K)
        /\ attempts[j].level =
              IF j = 1 THEN "strict"
              ELSE CascadeNext(attempts[j - 1].level,
                               HandleStoreAnswer(attempts[j - 1].answer).docs)
        /\ j > 1 => ~HandleStoreAnswer(attempts[j - 1].answer).raised

\* C19: whatever calls ran before or run beside it, and whatever the counters hold,
\* the action, rule_type, reason and modified_content that validate / moderate return
\* are those the same text, context and config give on a fresh process, and the store
\* queries of retrieve_reviews are those its features and the store's answers give.
C19_NoStateBetweenCalls ==
    \A i \in DOMAIN threads :
        LET th == threads[i]
        IN  /\ (th.op = "validate" /\ th.pc = "done") =>
                  Decision(th.gresult) = Decision(validate(th.text, config, Afresh).result)
            /\ (th.op = "moderate" /\ th.pc = "done") =>
                  Decision(th.gresult)
                     = Decision(moderate(th.text, th.context, config, Afresh).result)
            /\ th.op \in {"retrieve_reviews", "generate_advice"} =>
                  QueriesFollowFrom(th.features, th.storeCalls)

\* a validate that found PII returned after an earlier call had already counted PII,
\* by a call of the other thread that has returned
C19_Witness ==
    \E i, j \in DOMAIN threads :
        /\ i # j
        /\ threads[i].op = "validate" /\ threads[i].pc = "done"
        /\ threads[i].gresult.action = BLOCK
        /\ threads[i].gresult.rule_type = "pii_detection"
        /\ threads[i].seen.m.PII_DETECTED # EmptyBag
        /\ threads[j].pc = "done"

-----------------------------------------------------------------------------
(* Properties of concurrent calls *)

\* what retrieve_reviews hands back when it runs alone and the store gives `answers`
RECURSIVE AloneReviews(_, _)
AloneReviews(level, answers) ==
    LET r   == HandleStoreAnswer(answers[1])
        nxt == CascadeNext(level, r.docs)
    IN  IF r.raised THEN [raised |-> TRUE, docs |-> <<>>]
        ELSE IF nxt = "return" THEN [raised |-> FALSE, docs |-> r.docs]
        ELSE IF nxt = "fallback" THEN [raised |-> FALSE, docs |-> <<>>]
        ELSE AloneReviews(nxt, Tail(answers))

\* the result of the call of thread record th had it run alone against the store
\* answers and the generation outcome it was given
AloneResult(th) ==
    LET rv == AloneReviews("strict", [j \in 1..Len(th.storeCalls) |-> th.storeCalls[j].answer])
    IN  IF th.op = "retrieve_reviews"
        THEN IF rv.raised THEN Raised("store error") ELSE ListResult(rv.docs)
        ELSE IF rv.raised THEN OnGenerationError("store error")
        ELSE IF ~NeedsGeneration(rv.docs) THEN StrResult(NoReviewsSentence)
        ELSE IF th.llmCalls[1].outcome.kind = "ok"
        THEN StrResult(th.llmCalls[1].outcome.content)
        ELSE OnGenerationError(th.llmCalls[1].outcome.content)

HasReturnValue(th) ==
    \/ th.pc = "done"
    \/ th.pc = "finally"

RunsAlone(th) ==
    CASE th.op \in {"retrieve_reviews", "generate_advice"} -> th.result = AloneResult(th)
      [] th.op = "validate" ->
            /\ th.gresult = validate(th.text, config, Afresh).result
            /\ th.ran = validate(th.text, config, Afresh).st.ran
      [] th.op = "moderate" ->
            /\ th.gresult = moderate(th.text, th.context, config, Afresh).result
            /\ th.ran = moderate(th.text, th.context, config, Afresh).st.ran

AddCounters(a, b) ==
    [RAG_LATENCY |-> a.RAG_LATENCY + b.RAG_LATENCY,
     LLM_TOKEN_USAGE |-> [input  |-> a.LLM_TOKEN_USAGE.input + b.LLM_TOKEN_USAGE.input,
                          output |-> a.LLM_TOKEN_USAGE.output + b.LLM_TOKEN_USAGE.output],
     m |-> [GUARDRAIL_INPUT_BLOCKED |-> a.m.GUARDRAIL_INPUT_BLOCKED (+) b.m.GUARDRAIL_INPUT_BLOCKED,
            GUARDRAIL_INPUT_PASSED |-> a.m.GUARDRAIL_INPUT_PASSED + b.m.GUARDRAIL_INPUT_PASSED,
            GUARDRAIL_OUTPUT_BLOCKED |-> a.m.GUARDRAIL_OUTPUT_BLOCKED (+) b.m.GUARDRAIL_OUTPUT_BLOCKED,
            GUARDRAIL_OUTPUT_PASSED |-> a.m.GUARDRAIL_OUTPUT_PASSED + b.m.GUARDRAIL_OUTPUT_PASSED,
            GUARDRAIL_LATENCY |-> a.m.GUARDRAIL_LATENCY (+) b.m.GUARDRAIL_LATENCY,
            HALLUCINATION_DETECTED |-> a.m.HALLUCINATION_DETECTED + b.m.HALLUCINATION_DETECTED,
            PII_DETECTED |-> a.m.PII_DETECTED (+) b.m.PII_DETECTED]]

\* the increments of threads 1..n, added up
RECURSIVE SumOfIncrements(_)
SumOfIncrements(n) ==
    IF n = 0 THEN NoCounters
    ELSE AddCounters(SumOfIncrements(n - 1),
                     IF n \in DOMAIN threads THEN threads[n].incs ELSE NoCounters)

\* every count of bag a is at most its count in bag b
BagAtMost(a, b) == \A e \in BagToSet(a) : CopiesIn(e, a) <= CopiesIn(e, b)

CountersNeverDecrease ==
    /\ RAG_LATENCY' >= RAG_LATENCY
    /\ LLM_TOKEN_USAGE'.input >= LLM_TOKEN_USAGE.input
    /\ LLM_TOKEN_USAGE'.output >= LLM_TOKEN_USAGE.output
    /\ metrics'.GUARDRAIL_INPUT_PASSED >= metrics.GUARDRAIL_INPUT_PASSED
    /\ metrics'.GUARDRAIL_OUTPUT_PASSED >= metrics.GUARDRAIL_OUTPUT_PASSED
    /\ metrics'.HALLUCINATION_DETECTED >= metrics.HALLUCINATION_DETECTED
    /\ BagAtMost(metrics.GUARDRAIL_INPUT_BLOCKED, metrics'.GUARDRAIL_INPUT_BLOCKED)
    /\ BagAtMost(metrics.GUARDRAIL_OUTPUT_BLOCKED, metrics'.GUARDRAIL_OUTPUT_BLOCKED)
    /\ BagAtMost(metrics.GUARDRAIL_LATENCY, metrics'.GUARDRAIL_LATENCY)
    /\ BagAtMost(metrics.PII_DETECTED, metrics'.PII_DETECTED)

\* besides the counters, a step of one thread changes nothing the other threads hold
OnlyCountersShared ==
    /\ config' = config
    /\ DOMAIN threads \subseteq DOMAIN threads'
    /\ \A i, j \in DOMAIN threads : (i # j /\ threads'[i] # threads[i]) => threads'[j] = threads[j]
    /\ \A j \in DOMAIN threads : DOMAIN threads' # DOMAIN threads => threads'[j] = threads[j]

\* C20: under every interleaving of the threads' calls, each call's result is the one
\* it gets running alone against the same store and generation answers; a step of one
\* thread changes only its own locals and the counters; the counters never decrease,
\* and at every moment (the end included) they hold the sum of the calls' increments.
C20_ConcurrentRequestsIndependent ==
    /\ [](/\ \A i \in DOMAIN threads : HasReturnValue(threads[i]) => RunsAlone(threads[i])
          /\ Counters(RAG_LATENCY, LLM_TOKEN_USAGE, metrics) = SumOfIncrements(MaxThreads))
    /\ [][CountersNeverDecrease /\ OnlyCountersShared]_vars

\* two advice requests that overlapped (each started before the other observed its
\* latency) have both returned, and both observations are counted
C20_Witness ==
    \E i, j \in DOMAIN threads :
        /\ i # j
        /\ threads[i].op = "generate_advice" /\ threads[i].pc = "done"
        /\ threads[j].op = "generate_advice" /\ threads[j].pc = "done"
        /\ threads[i].seen.RAG_LATENCY = 0 /\ threads[j].seen.RAG_LATENCY = 0
        /\ threads[i].result # threads[j].result
        /\ RAG_LATENCY = 2

-----------------------------------------------------------------------------
(* Further properties of the RAG engine *)

\* C21: in every store query, a filter of exactly one condition is passed unwrapped,
\* a filter of two or more conditions is a single $and over all of them, and no
\* filter is an $or.
C21_FilterConstruction ==
    \A i \in 1..Len(storeCalls) :
        LET w == storeCalls[i].query.where
        IN  /\ Len(w.conds) = 1 => w.op = "unwrapped"
            /\ Len(w.conds) >= 2 => w.op = "$and"
            /\ w.op = "unwrapped" => Len(w.conds) = 1
            /\ w.op # "$or"

\* one call has issued both a query with several conditions and a query with one
C21_Witness ==
    /\ \E i \in 1..Len(storeCalls) : Len(storeCalls[i].query.where.conds) >= 2
    /\ \E i \in 1..Len(storeCalls) : Len(storeCalls[i].query.where.conds) = 1

\* C23: a generate_advice call records exactly one latency observation, on every exit
\* path: none while the call is in flight, and exactly one once it has returned, be
\* it with the no-reviews sentence, with the generated text or with the error string.
C23_OneLatencyObservation ==
    op = "generate_advice" =>
        /\ pc # "done" => RAG_LATENCY = atCall.RAG_LATENCY
        /\ pc = "done" => RAG_LATENCY = atCall.RAG_LATENCY + 1

\* a generate_advice whose llm.invoke raised has returned the error string and has
\* been observed once
C23_Witness ==
    /\ op = "generate_advice"
    /\ pc = "done"
    /\ Len(llmCalls) = 1
    /\ llmCalls[1].outcome.kind = "raise"
    /\ result.kind = "str"
    /\ RAG_LATENCY = atCall.RAG_LATENCY + 1

\* C24 (as claimed): every store query of retrieve_reviews, at every level and for
\* every feature set, carries an equality condition on category, and no query goes
\* to the store without a metadata filter.
C24_CategoryAlwaysFiltered ==
    \A i \in 1..Len(storeCalls) :
        LET w == storeCalls[i].query.where
        IN  /\ w.op # "None"
            /\ \E j \in 1..Len(w.conds) : w.conds[j].field = "category"

-----------------------------------------------------------------------------
(* Further properties of the guardrail counters *)

\* C22: a validate call that returns ALLOW has added exactly one to the input-passed
\* counter, and a validate call that returns BLOCK has left that counter as it was.
C22_InputPassedCounter ==
    gcall.op = "validate" =>
        /\ gcall.result.action \in {ALLOW, BLOCK}
        /\ gcall.result.action = ALLOW =>
              metrics.GUARDRAIL_INPUT_PASSED = gpre.GUARDRAIL_INPUT_PASSED + 1
        /\ gcall.result.action = BLOCK =>
              metrics.GUARDRAIL_INPUT_PASSED = gpre.GUARDRAIL_INPUT_PASSED

\* a validate that ran all three checks returned ALLOW and counted it
C22_Witness ==
    /\ gcall.op = "validate"
    /\ gcall.result.action = ALLOW
    /\ Len(gcall.ran) = 3
    /\ metrics.GUARDRAIL_INPUT_PASSED = gpre.GUARDRAIL_INPUT_PASSED + 1

\* C25 (as claimed): one validate call adds to exactly one of the two input counters:
\* one to input-blocked and nothing to input-passed when it returns BLOCK, one to
\* input-passed and nothing to input-blocked when it returns ALLOW.
C25_OneInputCounterPerCall ==
    gcall.op = "validate" =>
        LET blocked == BagCardinality(metrics.GUARDRAIL_INPUT_BLOCKED)
                          - BagCardinality(gpre.GUARDRAIL_INPUT_BLOCKED)
            passed  == metrics.GUARDRAIL_INPUT_PASSED - gpre.GUARDRAIL_INPUT_PASSED
        IN  /\ gcall.result.action = BLOCK => (blocked = 1 /\ passed = 0)
            /\ gcall.result.action = ALLOW => (blocked = 0 /\ passed = 1)

\* C26 (as claimed): one moderate call never adds to both the output-blocked and the
\* output-passed counter: a call that returns ALLOW with rule_type all_output_checks
\* has left the output-blocked and the hallucination-detected counter as they were.
C26_OneOutputCounterPerCall ==
    gcall.op = "moderate" =>
        LET blocked == BagCardinality(metrics.GUARDRAIL_OUTPUT_BLOCKED)
                          - BagCardinality(gpre.GUARDRAIL_OUTPUT_BLOCKED)
            passed  == metrics.GUARDRAIL_OUTPUT_PASSED - gpre.GUARDRAIL_OUTPUT_PASSED
        IN  /\ ~(blocked > 0 /\ passed > 0)
            /\ (gcall.result.action = ALLOW /\ gcall.result.rule_type = "all_output_checks") =>
                  /\ blocked = 0
                  /\ metrics.HALLUCINATION_DETECTED = gpre.HALLUCINATION_DETECTED

-----------------------------------------------------------------------------
(* Properties of the /inference endpoint *)

\* the handler has just answered an /inference request with 200
InferenceAnswered ==
    /\ inference.pc = "idle"
    /\ http_response.endpoint = "/inference"
    /\ http_response.status_code = 200

\* C27 (as claimed): the num_reviews_retrieved of an /inference response is the number
\* of reviews that generate_advice put into the prompt of the same request (none when
\* it built no prompt), whatever the store answered to the handler's own retrieval
\* and to the one inside generate_advice.
C27_NumReviewsMatchesPrompt ==
    InferenceAnswered => http_response.body.num_reviews_retrieved = Len(reviews)

\* C28: the service serves only with the rating model loaded, and a failed model load
\* leaves it not started; when it serves with rag_engine unset (the engine failed to
\* initialise), /health reports rag_engine_loaded false and an /inference request is
\* answered 503 without any store query or generation call.
C28_EngineUsabilityEnforced ==
    /\ server = "serving" => model = "loaded"
    /\ server = "startup_failed" =>
          /\ model = "None"
          /\ http_response = NoHttpResponse
          /\ started = 0
    /\ http_response.endpoint = "/health" =>
          /\ http_response.body.rag_engine_loaded = (rag_engine # "None")
          /\ http_response.body.model_loaded
    /\ rag_engine = "None" =>
          /\ http_response.endpoint = "/inference" => http_response.status_code = 503
          /\ inference.pc = "idle"
          /\ started = 0
          /\ storeCalls = <<>>
          /\ llmCalls = <<>>

\* the service started without the engine and has answered an /inference request 503
C28_Witness ==
    /\ server = "serving"
    /\ model = "loaded"
    /\ rag_engine = "None"
    /\ inference.served = 1
    /\ http_response.endpoint = "/inference"
    /\ http_response.status_code = 503
    /\ storeCalls = <<>>

\* C29 (as claimed): an /inference response with status "success" carries advice that
\* the generation produced or the fixed no-reviews sentence, and a request whose
\* llm.invoke raised is not answered with a 200.
C29_SuccessMeansAdvice ==
    (inference.pc = "idle" /\ http_response.endpoint = "/inference" /\ rag_engine # "None") =>
        /\ (http_response.status_code = 200 /\ http_response.body.status = "success") =>
              \/ http_response.body.advice = NoReviewsSentence
              \/ /\ Len(llmCalls) = 1
                 /\ llmCalls[1].outcome.kind = "ok"
                 /\ http_response.body.advice = llmCalls[1].outcome.content
        /\ (llmCalls # <<>> /\ llmCalls[1].outcome.kind = "raise") =>
              http_response.status_code # 200

(***************************************************************************)
(* Further properties of the hallucination score                           *)
(***************************************************************************)

\* the third signal: a non-empty context shares less than a tenth of the
\* response's words
OverlapSignal(response, retrieved_context) ==
    /\ Supplied(retrieved_context)
    /\ 10 * OverlapWords(response, retrieved_context) < ResponseWords(response)

\* how many of the three signals fire
SignalsFired(response, retrieved_context) ==
    (IF UncertaintySignal(response) THEN 1 ELSE 0)
    + (IF GroundingSignal(response) THEN 1 ELSE 0)
    + (IF OverlapSignal(response, retrieved_context) THEN 1 ELSE 0)

\* the default hallucination_threshold of GuardrailConfig, in hundredths
DefaultThreshold == GuardrailConfig.hallucination_threshold

\* C30: the score of a check_hallucination call is one of 0, 0.3, 0.4, 0.6, 0.7
\* and 1.0.  With the default threshold 0.5 the call returns WARN exactly when
\* at least two of the three signals fire, so one signal alone gives ALLOW, and
\* without a supplied context WARN needs both text-only signals.
C30_ScoreValuesAndTwoSignals ==
    gcall.op = "check_hallucination" =>
        LET res == gcall.result
            fired == SignalsFired(gcall.text, gcall.context)
        IN  /\ ScoreOf(res) \in {0, 30, 40, 60, 70, 100}
            /\ ScoreOf(res) = HallucinationScore(gcall.text, gcall.context)
            /\ config.hallucination_threshold = DefaultThreshold =>
                  /\ res.action = "warn" <=> fired >= 2
                  /\ fired = 1 => res.action = "allow"
                  /\ (res.action = "warn" /\ ~Supplied(gcall.context)) =>
                        UncertaintySignal(gcall.text) /\ GroundingSignal(gcall.text)

\* at the default threshold, the overlap signal and one text signal give WARN
C30_Witness ==
    /\ gcall.op = "check_hallucination"
    /\ config.hallucination_threshold = DefaultThreshold
    /\ DefaultThreshold = 50
    /\ SignalsFired(gcall.text, gcall.context) = 2
    /\ OverlapSignal(gcall.text, gcall.context)
    /\ gcall.result.action = "warn"
    /\ ScoreOf(gcall.result) = 70

====
